---------------------------- MODULE Spec2Model ----------------------------
(***************************************************************************)
(* Model of the daily signal decision engine                               *)
(* (src/src/orchestration/signal_engine.py), its risk metrics              *)
(* (src/src/analytics/risk_metrics.py), the numeric kernels it uses        *)
(* (src/src/utils/math.py), the settings loader (src/src/data/io.py), the  *)
(* feature builder (src/src/analytics/calculate_indicators.py), the raw    *)
(* CSV helpers (src/src/data/fetch_history*.py) and the two batch actions  *)
(* (src/actions/build_indicators.py, src/actions/fetch_history_massive.py).*)
(*                                                                         *)
(* Numbers.  Python floats are modelled as fixed-point integers with four  *)
(* decimals: the real number x is the integer x * SCALE.  Prices are plain *)
(* integers (only their ratios are used).  A blank CSV cell (None, "" or   *)
(* "NA" in the source) is the value Blank.  Divisions and square roots    *)
(* round down to the fixed-point grid, so a computed volatility or weight  *)
(* is the source's value up to that rounding.                              *)
(***************************************************************************)
EXTENDS Integers, Sequences, FiniteSets, TLC

SCALE == 10 ^ 4
ONE == SCALE
Blank == -999999
None == -1

(***************************************************************************)
(* Bounds of the model (not program constants).                            *)
(***************************************************************************)
\* largest number of rows of a feature table
MaxRows == 65
\* number of rows of the short tables (history shorter than the window)
ShortRows == 3
\* largest number of dated points / largest cooldown length drawn for
\* cooldown_active
MaxDates == 10
MaxCooldown == 5
\* longest series drawn for the functions over a series
MaxSeries == 4
\* longest series grown row by row, and the longest cooldown it is run with
MaxGrow == 6
MaxGrowCooldown == 3

(***************************************************************************)
(* Generic helpers.                                                        *)
(***************************************************************************)
Max2(a, b) == IF a >= b THEN a ELSE b
Min2(a, b) == IF a <= b THEN a ELSE b

\* sum(s[lo..hi]), by halving the range
RECURSIVE RangeSum(_, _, _)
RangeSum(s, lo, hi) ==
    IF lo > hi THEN 0
    ELSE IF lo = hi THEN s[lo]
    ELSE LET mid == (lo + hi) \div 2
         IN  RangeSum(s, lo, mid) + RangeSum(s, mid + 1, hi)

SeqSum(s) == RangeSum(s, 1, Len(s))

RECURSIVE isqrt_search(_, _, _)
isqrt_search(n, lo, hi) ==
    IF lo >= hi THEN lo
    ELSE LET mid == (lo + hi + 1) \div 2
         IN  IF mid * mid <= n THEN isqrt_search(n, mid, hi)
                               ELSE isqrt_search(n, lo, mid - 1)

\* math.sqrt on a non-negative integer, rounded down
isqrt(n) == isqrt_search(n, 0, 46340)

\* fixed-point product of two SCALE-d numbers
Mul(a, b) == (a * b) \div SCALE

(***************************************************************************)
(* utils/math.py                                                           *)
(***************************************************************************)
\* clamp(value, lower, upper) = max(lower, min(value, upper))
clamp(value, lower, upper) == Max2(lower, Min2(value, upper))

\* the sum of the first i values, for every i, computed by halving
RECURSIVE prefix_sums(_)
prefix_sums(values) ==
    IF Len(values) <= 1 THEN values
    ELSE LET h == Len(values) \div 2
             left == prefix_sums(SubSeq(values, 1, h))
             right == prefix_sums(SubSeq(values, h + 1, Len(values)))
         IN  left \o [i \in 1..Len(right) |-> left[h] + right[i]]

\* moving_average that never takes the oldest price out of the rolling sum
moving_average_unpopped(series, window) ==
    IF window <= 0
    THEN [error |-> "ValueError: window must be a positive integer", values |-> <<>>]
    ELSE LET added == prefix_sums([i \in 1..Len(series) |-> series[i].price])
         IN  [error |-> "",
              values |-> [i \in 1..Len(series) |->
                  [date |-> series[i].date,
                   avg |-> IF i >= window THEN (added[i] * SCALE) \div window
                           ELSE Blank]]]

\* moving_average(series, window) over (date, price) pairs: the rolling sum
\* after the i-th pair is everything added so far less everything popped so
\* far (the prices older than the window); the average is None (Blank)
\* until the buffer holds window prices
moving_average(series, window) ==
    IF window <= 0
    THEN [error |-> "ValueError: window must be a positive integer", values |-> <<>>]
    ELSE LET added == prefix_sums([i \in 1..Len(series) |-> series[i].price])
             rolling_sum(i) == added[i] - (IF i > window THEN added[i - window] ELSE 0)
         IN  [error |-> "",
              values |-> [i \in 1..Len(series) |->
                  [date |-> series[i].date,
                   avg |-> IF i >= window THEN (rolling_sum(i) * SCALE) \div window
                           ELSE Blank]]]

\* daily_returns: simple returns current/previous - 1, 0.0 when previous = 0
daily_returns(prices) ==
    [i \in 1..(Len(prices) - 1) |->
        IF prices[i] = 0 THEN 0
        ELSE (prices[i + 1] * SCALE) \div prices[i] - SCALE]

\* population standard deviation of one full window (the body of the
\* rolling_std loop once len(buffer) = window); the squares are kept in
\* SCALE^2 units so that the square root is again in SCALE units
window_std(buffer, window) ==
    LET mean == SeqSum(buffer) \div window
        sq == [i \in 1..Len(buffer) |-> (buffer[i] - mean) * (buffer[i] - mean)]
        variance == SeqSum(sq) \div window
    IN  isqrt(variance)

\* rolling_std: one value per position at which the window is full
rolling_std(values, window) ==
    IF Len(values) < window THEN <<>>
    ELSE [i \in 1..(Len(values) - window + 1) |->
             window_std(SubSeq(values, i, i + window - 1), window)]

VOL_WINDOW == 63
TRADING_DAYS == 252

\* annualized_volatility: last rolling std times sqrt(trading_days)
annualized_volatility(prices, window, trading_days) ==
    LET returns == daily_returns(prices)
        std_values == rolling_std(returns, window)
    IN  IF Len(returns) < window THEN 0
        ELSE IF std_values = <<>> THEN 0
        ELSE (std_values[Len(std_values)] * isqrt(trading_days * 1000000)) \div 1000

\* the running peak of the drawdown loop: peak[i] = max(values[1..i]),
\* computed by halving the sequence
RECURSIVE running_peak(_)
running_peak(values) ==
    IF Len(values) <= 1 THEN values
    ELSE LET h == Len(values) \div 2
             left == running_peak(SubSeq(values, 1, h))
             right == running_peak(SubSeq(values, h + 1, Len(values)))
         IN  left \o [i \in 1..Len(right) |-> Max2(left[h], right[i])]

\* drawdown_vs_peak with the peak raised only after the drawdown is taken
drawdown_vs_peak_late(values) ==
    LET peak == running_peak(values)
    IN  [i \in 1..Len(values) |->
            IF i > 1 /\ peak[i - 1] > 0
            THEN (values[i] * SCALE) \div peak[i - 1] - SCALE ELSE 0]

\* drawdown_vs_peak: value / running peak - 1, 0.0 while the peak is <= 0
drawdown_vs_peak(values) ==
    LET peak == running_peak(values)
    IN  [i \in 1..Len(values) |->
            IF peak[i] > 0 THEN (values[i] * SCALE) \div peak[i] - SCALE ELSE 0]

(***************************************************************************)
(* analytics/risk_metrics.py                                               *)
(***************************************************************************)
realized_volatility(prices) ==
    IF Len(prices) < VOL_WINDOW + 1 THEN 0
    ELSE annualized_volatility(prices, VOL_WINDOW, TRADING_DAYS)

drawdowns(prices) == IF prices = <<>> THEN <<>> ELSE drawdown_vs_peak(prices)

Abs(x) == IF x < 0 THEN -x ELSE x

\* last_stop_index with the stop level used as it is given
last_stop_index_signed(drawdown_values, stop_level) ==
    LET trigger == -stop_level
        hits == {i \in 1..Len(drawdown_values) : drawdown_values[i] <= trigger}
    IN  IF hits = {} THEN None
        ELSE (CHOOSE i \in hits : \A j \in hits : j <= i) - 1

\* last_stop_index: most recent 0-based index with drawdown <= -abs(stop),
\* None when there is none
last_stop_index(drawdown_values, stop_level) ==
    LET trigger == -Abs(stop_level)
        hits == {i \in 1..Len(drawdown_values) : drawdown_values[i] <= trigger}
    IN  IF hits = {} THEN None
        ELSE (CHOOSE i \in hits : \A j \in hits : j <= i) - 1

\* cooldown_active without the end of the window: active ever after a stop
cooldown_active_unexpired(dates, last_stop_idx, cooldown_days) ==
    IF last_stop_idx = None \/ dates = <<>> THEN <<FALSE, 0>>
    ELSE <<TRUE, Len(dates) - (last_stop_idx + 1)>>

\* cooldown_active counting the day the window ends as still active
cooldown_active_inclusive(dates, last_stop_idx, cooldown_days) ==
    IF last_stop_idx = None \/ dates = <<>> THEN <<FALSE, 0>>
    ELSE LET days_since == Len(dates) - (last_stop_idx + 1)
         IN  <<days_since <= cooldown_days, days_since>>

\* cooldown_active(dates, last_stop_idx, cooldown_days):
\* returns <<active, days_since_stop>>
cooldown_active(dates, last_stop_idx, cooldown_days) ==
    IF last_stop_idx = None \/ dates = <<>> THEN <<FALSE, 0>>
    ELSE LET days_since == Len(dates) - (last_stop_idx + 1)
         IN  <<days_since < cooldown_days, days_since>>

(***************************************************************************)
(* data/io.py: settings                                                    *)
(***************************************************************************)
FeatureNames ==
    {"logistic_ma_spread_50_120", "logistic_ma_spread_50_280",
     "logistic_return_scaled_21", "momentum_positive_bonus"}

\* DEFAULT_SETTINGS as the module defines it
DefaultSettingsInit ==
    [target_vol |-> 1200,
     vol_threshold |-> 2200,
     max_drawdown_stop |-> 1500,
     cooldown_days |-> 10,
     entry_thresholds |->
        [LOW_VOL |-> [long |-> 6000, short |-> 6500],
         HIGH_VOL |-> [long |-> 7000, short |-> 7500]],
     exit_threshold |-> 4500,
     weights |->
        [up |-> [logistic_ma_spread_50_120 |-> 1800,
                 logistic_ma_spread_50_280 |-> 5700,
                 logistic_return_scaled_21 |-> 2000,
                 momentum_positive_bonus |-> 500],
         down |-> [logistic_ma_spread_50_120 |-> 1200,
                   logistic_ma_spread_50_280 |-> 6800,
                   logistic_return_scaled_21 |-> 1500,
                   momentum_positive_bonus |-> 500]]]

\* the keys whose values are dictionaries (isinstance(value, dict)) in the
\* settings and in every settings file of the model
DictKeys == {"entry_thresholds", "weights", "LOW_VOL", "HIGH_VOL", "up", "down"}

\* _deep_update(base, updates): the value of base after the recursive merge
RECURSIVE deep_update(_, _)
deep_update(base, updates) ==
    [k \in (DOMAIN base) \cup (DOMAIN updates) |->
        IF k \notin DOMAIN updates THEN base[k]
        ELSE IF k \in DictKeys /\ k \in DOMAIN base
             THEN deep_update(base[k], updates[k])
             ELSE updates[k]]

\* load_settings(path) with the module global DEFAULT_SETTINGS = defaults.
\* file = [exists, data].  Returns the settings and the value of
\* DEFAULT_SETTINGS after the call: settings is DEFAULT_SETTINGS.copy(), a
\* copy of the top level only, so its nested dictionaries are the ones of
\* DEFAULT_SETTINGS and _deep_update writes into them.
load_settings(defaults, file) ==
    IF ~file.exists THEN [settings |-> defaults, defaults |-> defaults]
    ELSE LET merged == deep_update(defaults, file.data)
         IN  [settings |-> merged,
              defaults |->
                 [k \in DOMAIN defaults |->
                     IF k \in DictKeys /\ k \in DOMAIN file.data
                     THEN merged[k] ELSE defaults[k]]]

(***************************************************************************)
(* orchestration/signal_engine.py: helpers                                 *)
(***************************************************************************)
IsBlank(value) == value = Blank

\* to_float(key, default) of _normalize_row on one cell; "raise" is the
\* ValueError for a blank cell without default
Raise == -888888
to_float(value, default) ==
    IF IsBlank(value) THEN (IF default = None THEN Raise ELSE default)
    ELSE value

NEUTRAL == 5000

\* _normalize_row: close is required, the four base features default to
\* 0.5, every other cell stays as it is in the file
normalize_row(row) ==
    [date |-> row.date,
     close |-> to_float(row.close, None),
     ma_50 |-> row.ma_50,
     ma_120 |-> row.ma_120,
     ma_280 |-> row.ma_280,
     base |-> [k \in FeatureNames |-> to_float(row.base[k], NEUTRAL)],
     complement |-> row.complement,
     long_term_down |-> row.long_term_down]

TREND_UP == 5500
TREND_DOWN == 4500

\* _trend_label (with _maybe_float: a blank moving average is missing)
trend_label(row) ==
    IF ~IsBlank(row.ma_50) /\ ~IsBlank(row.ma_120) /\ ~IsBlank(row.ma_280)
    THEN IF row.ma_50 > row.ma_120 /\ row.ma_120 > row.ma_280 THEN "UPTREND"
         ELSE IF row.ma_50 < row.ma_120 /\ row.ma_120 < row.ma_280 THEN "DOWNTREND"
         ELSE "SIDEWAYS"
    ELSE LET rel == row.base["logistic_ma_spread_50_280"]
             vel == row.base["logistic_return_scaled_21"]
         IN  IF rel >= TREND_UP /\ vel >= TREND_UP THEN "UPTREND"
             ELSE IF rel <= TREND_DOWN /\ vel <= TREND_DOWN THEN "DOWNTREND"
             ELSE "SIDEWAYS"

\* _feature_down: the complement column verbatim when present, else 1 - value
\* lines 253-259 without the complement columns: always the mirror
feature_down_mirrored(key, row, value) == ONE - value

feature_down(key, row, value) ==
    IF ~IsBlank(row.complement[key]) THEN row.complement[key]
    ELSE ONE - value

\* int(float(value)): the fixed-point value cut off towards zero
int_of_float(value) ==
    IF value >= 0 THEN value \div SCALE ELSE -((-value) \div SCALE)

\* _prepare_features
prepare_features(row) ==
    LET up == [k \in FeatureNames |-> row.base[k]]
        down == [k \in FeatureNames |-> feature_down(k, row, up[k])]
        long_term_down ==
            IF IsBlank(row.long_term_down)
            THEN (IF up["logistic_ma_spread_50_280"] < NEUTRAL THEN 1 ELSE 0)
            ELSE int_of_float(row.long_term_down)
    IN  [up |-> up, down |-> down, long_term_down |-> long_term_down]

RECURSIVE score_sum(_, _, _)
score_sum(features, weights, names) ==
    IF names = {} THEN 0
    ELSE LET name == CHOOSE x \in names : TRUE
         IN  Mul(weights[name], features[name])
             + score_sum(features, weights, names \ {name})

\* lines 262-264 without the weights: the plain sum of the features
score_unweighted(features, weights) == score_sum(features, [k \in DOMAIN weights |-> ONE], DOMAIN weights)

\* _score: sum of weights[name] * features[name] over the names of weights
score(features, weights) == score_sum(features, weights, DOMAIN weights)

HIGH_VOL_LONG_FLOOR == 7000
HIGH_VOL_SHORT_FLOOR == 8000

\* _apply_gates, one operator per statement of the function body.
\* line 277: the long entry threshold
gate_long_entry(score_up, thresholds) == score_up >= thresholds.long

\* lines 278-279: the hardcoded long floor of the HIGH_VOL regime
gate_long_high_vol(take_long, regime, score_up) ==
    IF regime = "HIGH_VOL" /\ score_up < HIGH_VOL_LONG_FLOOR THEN FALSE ELSE take_long

\* line 280: the short entry threshold
gate_short_entry(score_dn, thresholds) == score_dn >= thresholds.short

\* the HIGH_VOL short rule asking for the flag and the floor together
gate_short_high_vol_both(take_short, regime, long_term_down, score_dn) ==
    IF regime = "HIGH_VOL" /\ ~(long_term_down # 0 /\ score_dn >= HIGH_VOL_SHORT_FLOOR)
    THEN FALSE ELSE take_short

\* lines 281-282: in HIGH_VOL a short needs the long-term-down flag or the
\* hardcoded short floor
gate_short_high_vol(take_short, regime, long_term_down, score_dn) ==
    IF regime = "HIGH_VOL" /\ ~(long_term_down # 0 \/ score_dn >= HIGH_VOL_SHORT_FLOOR)
    THEN FALSE ELSE take_short

\* the exit rule assigning the comparison instead of only clearing the flag
gate_exit_assigned(take, side_score, exit_threshold) == side_score >= exit_threshold

\* lines 283-284 and 285-286: the shared exit threshold, for either flag
gate_exit(take, side_score, exit_threshold) ==
    IF take /\ side_score < exit_threshold THEN FALSE ELSE take

\* the cooldown override left out
gate_cooldown_skipped(take, cooldown) == take

\* lines 287-289: the cooldown override, for either flag
gate_cooldown(take, cooldown) == IF cooldown THEN FALSE ELSE take

apply_gates(score_up, score_dn, regime, long_term_down, cooldown, thresholds, exit_threshold) ==
    LET long1 == gate_long_entry(score_up, thresholds)
        long2 == gate_long_high_vol(long1, regime, score_up)
        short1 == gate_short_entry(score_dn, thresholds)
        short2 == gate_short_high_vol(short1, regime, long_term_down, score_dn)
        long3 == gate_exit(long2, score_up, exit_threshold)
        short3 == gate_exit(short2, score_dn, exit_threshold)
    IN  [take_long |-> gate_cooldown(long3, cooldown),
         take_short |-> gate_cooldown(short3, cooldown)]

LEVERAGE == 3

\* _size_positions without the HIGH_VOL halving
size_positions_unhalved(vol_today, regime, take_long, take_short, target_vol) ==
    LET asset_vol == vol_today * LEVERAGE
        weight == Min2((target_vol * SCALE) \div asset_vol, ONE)
    IN  IF asset_vol <= 0 THEN <<0, 0, "unavailable">>
        ELSE <<IF take_long THEN weight ELSE 0,
               IF take_short THEN weight ELSE 0,
               "sigma63">>

\* lines 301-303 without the guard: an asset volatility that is not
\* positive sizes a taken side at the cap of 1.0
size_positions_unguarded(vol_today, regime, take_long, take_short, target_vol) ==
    LET asset_vol == vol_today * LEVERAGE
        weight0 == IF asset_vol <= 0 THEN ONE ELSE Min2((target_vol * SCALE) \div asset_vol, ONE)
        weight == IF regime = "HIGH_VOL" THEN Mul(weight0, 5000) ELSE weight0
    IN  <<IF take_long THEN weight ELSE 0,
          IF take_short THEN weight ELSE 0,
          "sigma63">>

\* _size_positions: <<long_weight, short_weight, vol_note>>
size_positions(vol_today, regime, take_long, take_short, target_vol) ==
    LET asset_vol == vol_today * LEVERAGE
        weight0 == Min2((target_vol * SCALE) \div asset_vol, ONE)
        weight == IF regime = "HIGH_VOL" THEN Mul(weight0, 5000) ELSE weight0
    IN  IF asset_vol <= 0 THEN <<0, 0, "unavailable">>
        ELSE <<IF take_long THEN weight ELSE 0,
               IF take_short THEN weight ELSE 0,
               "sigma63">>

\* _resolve_conflict returning the weights it was given
resolve_conflict_unassigned(long_weight, short_weight, margin_long, margin_short) ==
    <<long_weight, short_weight>>

\* _resolve_conflict with a strict comparison of the margins
resolve_conflict_strict(long_weight, short_weight, margin_long, margin_short) ==
    IF long_weight > 0 /\ short_weight > 0
    THEN IF margin_long > margin_short THEN <<long_weight, 0>>
         ELSE <<0, short_weight>>
    ELSE <<long_weight, short_weight>>

\* _resolve_conflict: <<long_weight, short_weight>>
resolve_conflict(long_weight, short_weight, margin_long, margin_short) ==
    IF long_weight > 0 /\ short_weight > 0
    THEN IF margin_long >= margin_short THEN <<long_weight, 0>>
         ELSE <<0, short_weight>>
    ELSE <<long_weight, short_weight>>

\* the "{x:.3f}" conversion: x rounded to three decimals
fmt3(x) == ((x + 5) \div 10) * 10

\* _action_line
action_line(gate, long_weight, short_weight, asset_vol) ==
    IF gate.take_long /\ long_weight > 0
    THEN [text |-> "Taking LONG", weight |-> long_weight, asset_vol |-> asset_vol]
    ELSE IF gate.take_short /\ short_weight > 0
    THEN [text |-> "Taking SHORT", weight |-> short_weight, asset_vol |-> asset_vol]
    ELSE [text |-> "Staying in cash", weight |-> 0, asset_vol |-> 0]

\* _build_notes: the four lines, each as the values it prints
build_notes(regime, vol, cooldown, days_since_stop, gate, long_weight, short_weight, vol_note, vol_threshold, score_up, score_dn, long_term_down, trend, asset_vol) ==
    << [text |-> "Regime", regime |-> regime,
        vol_note |-> IF vol_note = "sigma63" THEN <<vol_note, vol>> ELSE <<vol_note>>,
        threshold |-> vol_threshold],
       [text |-> "Cooldown active", active |-> cooldown,
        days_since_stop |-> days_since_stop],
       [text |-> "Scores", up |-> fmt3(score_up), down |-> fmt3(score_dn),
        long_term_down |-> (long_term_down # 0), regime |-> trend],
       action_line(gate, long_weight, short_weight, asset_vol) >>

(***************************************************************************)
(* orchestration/signal_engine.py: run_signal_engine                       *)
(***************************************************************************)
\* merge of two date-sorted sequences, a's rows first among equal dates
RECURSIVE merge_by_date(_, _)
merge_by_date(a, b) ==
    IF a = <<>> THEN b
    ELSE IF b = <<>> THEN a
    ELSE LET mid == (Len(a) + 1) \div 2
             pivot == a[mid]
             before == SelectSeq(b, LAMBDA r : r.date < pivot.date)
             after == SubSeq(b, Len(before) + 1, Len(b))
         IN  merge_by_date(SubSeq(a, 1, mid - 1), before)
             \o <<pivot>>
             \o merge_by_date(SubSeq(a, mid + 1, Len(a)), after)

RECURSIVE merge_sort_by_date(_)
merge_sort_by_date(rows) ==
    IF Len(rows) <= 1 THEN rows
    ELSE LET h == Len(rows) \div 2
         IN  merge_by_date(merge_sort_by_date(SubSeq(rows, 1, h)),
                           merge_sort_by_date(SubSeq(rows, h + 1, Len(rows))))

\* the sort left out: the rows stay in file order
sort_by_date_missing(rows) == rows

\* filtered.sort(key=date): a stable sort by ascending date.  As list.sort
\* does, a list that is one ascending run is left as it is and a list that
\* is one strictly descending run is reversed; anything else is merged.
sort_by_date(rows) ==
    LET n == Len(rows)
    IN  IF \A i \in 1..(n - 1) : rows[i].date <= rows[i + 1].date THEN rows
        ELSE IF \A i \in 1..(n - 1) : rows[i].date > rows[i + 1].date
             THEN [i \in 1..n |-> rows[n + 1 - i]]
        ELSE merge_sort_by_date(rows)

\* max(date for date, _ in dated_rows), by halving the range
RECURSIVE range_max_date(_, _, _)
range_max_date(rows, lo, hi) ==
    IF lo = hi THEN rows[lo].date
    ELSE LET mid == (lo + hi) \div 2
         IN  Max2(range_max_date(rows, lo, mid), range_max_date(rows, mid + 1, hi))

max_date(rows) == range_max_date(rows, 1, Len(rows))

\* _format_report: the header fields and the notes
format_report(result, source_path) ==
    [source |-> source_path,
     date |-> result.date,
     trend |-> result.trend,
     long_target |-> result.long_weight,
     short_target |-> result.short_weight,
     cash_target |-> result.cash_weight,
     notes |-> result.notes]

Failure(kind) == [error |-> kind, result |-> <<>>]

\* the date check off by one: the day after the latest row is let through
exceeds_latest_lenient(signal_date, latest_available) ==
    signal_date # None /\ signal_date > latest_available + 1

\* lines 68-70: a date was requested and it is after the latest row
exceeds_latest(signal_date, latest_available) ==
    signal_date # None /\ signal_date > latest_available

\* line 77 without the condition: every row is kept
on_or_before_unfiltered(dated_rows, target_date) == dated_rows

\* line 77: the rows dated on or before the target date, in file order
on_or_before(dated_rows, target_date) ==
    SelectSeq(dated_rows, LAMBDA r : r.date <= target_date)

\* line 96 with a strict comparison: a volatility equal to the threshold
\* counts as HIGH_VOL
regime_of_strict(vol_today, vol_threshold) ==
    IF vol_today < vol_threshold THEN "LOW_VOL" ELSE "HIGH_VOL"

\* line 96: the volatility regime
regime_of(vol_today, vol_threshold) ==
    IF vol_today <= vol_threshold THEN "LOW_VOL" ELSE "HIGH_VOL"

\* lines 94-159 of run_signal_engine: from the snapshot row, the settings
\* and the risk metrics (the volatility and cd = <<cooldown_active,
\* days_since_stop>>) to the SignalResult
decide(latest, settings, vol_today, cd) ==
    LET trend == trend_label(latest)
        regime == regime_of(vol_today, settings.vol_threshold)
        thresholds == settings.entry_thresholds[regime]
        features == prepare_features(latest)
        score_up == score(features.up, settings.weights.up)
        score_dn == score(features.down, settings.weights.down)
        gate == apply_gates(score_up, score_dn, regime, features.long_term_down,
                            cd[1], thresholds, settings.exit_threshold)
        sized == size_positions(vol_today, regime, gate.take_long, gate.take_short,
                                settings.target_vol)
        resolved == resolve_conflict(sized[1], sized[2],
                                     score_up - thresholds.long,
                                     score_dn - thresholds.short)
        cash_weight == clamp(ONE - (resolved[1] + resolved[2]), 0, ONE)
    IN  [date |-> latest.date,
         regime |-> regime,
         trend |-> trend,
         score_up |-> score_up,
         score_dn |-> score_dn,
         take_long |-> gate.take_long,
         take_short |-> gate.take_short,
         long_weight |-> resolved[1],
         short_weight |-> resolved[2],
         cash_weight |-> cash_weight,
         notes |-> build_notes(regime, vol_today, cd[1], cd[2], gate,
                               resolved[1], resolved[2], sized[3],
                               settings.vol_threshold, score_up, score_dn,
                               features.long_term_down, trend,
                               vol_today * LEVERAGE)]

\* lines 62-159 of run_signal_engine: from the rows read and the settings
\* loaded to the SignalResult, or to the error raised
signal_decision(rows, settings, signal_date) ==
    LET normalized_rows == [i \in 1..Len(rows) |-> normalize_row(rows[i])]
        latest_available == max_date(normalized_rows)
        target_date == IF signal_date # None THEN signal_date ELSE latest_available
        filtered == sort_by_date(on_or_before(normalized_rows, target_date))
        closes == [i \in 1..Len(filtered) |-> filtered[i].close]
        dates == [i \in 1..Len(filtered) |-> filtered[i].date]
        vol_today == realized_volatility(closes)
        dd == drawdowns(closes)
        last_stop_idx == last_stop_index(dd, settings.max_drawdown_stop)
        cd == cooldown_active(dates, last_stop_idx, settings.cooldown_days)
        latest == filtered[Len(filtered)]
    IN  IF \E i \in 1..Len(rows) : normalized_rows[i].close = Raise
        THEN Failure("ValueError: missing required column close")
        ELSE IF rows = <<>>
        THEN Failure("ValueError: max of an empty sequence")
        ELSE IF exceeds_latest(signal_date, latest_available)
        THEN Failure("ValueError: requested date exceeds latest available")
        ELSE IF filtered = <<>>
        THEN Failure("ValueError: no data on or before requested date")
        ELSE [error |-> "", result |-> <<decide(latest, settings, vol_today, cd)>>]

\* run_signal_engine(csv_path, settings_path, report_path, signal_date) in a
\* process whose DEFAULT_SETTINGS is defaults, with the report sink holding
\* report: the settings are loaded first, the report is written last and
\* only when a report path is given and nothing was raised
run_signal_engine(defaults, rows, settings_file, report, report_path, signal_date) ==
    LET loaded == load_settings(defaults, settings_file)
        out == signal_decision(rows, loaded.settings, signal_date)
    IN  [defaults |-> loaded.defaults,
         error |-> out.error,
         result |-> out.result,
         report |-> IF out.error = "" /\ report_path
                    THEN <<format_report(out.result[1], "csv")>>
                    ELSE report]

(***************************************************************************)
(* utils/math.py and analytics/calculate_indicators.py: the feature        *)
(* builder.  A raw row is [Symbol, Date, Close]; its Close cell is         *)
(* [dollar, amount], the text of the price with or without a leading "$".  *)
(* Moving averages and features are fixed-point; closes are plain integers.*)
(***************************************************************************)
\* 1 / (1 + exp(-x)) at x = 0, 1, ..., 8, in fixed point
SigmoidTable == <<5000, 7311, 8808, 9526, 9820, 9933, 9975, 9991, 9997>>

\* sigmoid for x >= 0: the table, interpolated between whole numbers
sigmoid_nonneg(x) ==
    LET k == x \div SCALE
        frac == x % SCALE
    IN  IF k >= 8 THEN (IF k >= 37 THEN ONE ELSE ONE - 1)
        ELSE SigmoidTable[k + 1]
             + ((SigmoidTable[k + 2] - SigmoidTable[k + 1]) * frac) \div SCALE

\* sigmoid(x) = 1 / (1 + exp(-x))
sigmoid(x) == IF x >= 0 THEN sigmoid_nonneg(x) ELSE ONE - sigmoid_nonneg(0 - x)

\* percentage_change(current, previous) for previous # 0 (the callers
\* exclude 0 before they call)
percentage_change(current, previous) == ((current - previous) * SCALE) \div previous

\* logistic_spread_scaled(n, m, k) = sigmoid((n - m) / (m * k)), for
\* m # 0 and k # 0 (the caller excludes 0 before it calls)
logistic_spread_scaled(numerator, denominator, scale) ==
    LET spread == ((((numerator - denominator) * SCALE) \div denominator) * SCALE)
                      \div scale
    IN  sigmoid(spread)

LOGISTIC_K1 == 500
LOGISTIC_K2 == 800
VELOCITY_LOOKBACK == 21
VELOCITY_SCALE == 700
MOMENTUM_SCALE == 1000
REQUIRED_WINDOWS == {50, 120, 280}

\* _logistic_spread: None (Blank) unless both averages are there and b # 0
logistic_spread(a, b, scale) ==
    IF a = Blank \/ b = Blank \/ b = 0 \/ scale = 0 THEN Blank
    ELSE logistic_spread_scaled(a, b, scale)

\* _logistic_return(closes, index, lookback, scale), index counted from 0
logistic_return(closes, index, lookback, scale) ==
    IF index < lookback THEN Blank
    ELSE LET past_close == closes[index + 1 - lookback].close
         IN  IF past_close = 0 \/ scale = 0 THEN Blank
             ELSE LET relative_change ==
                          ((closes[index + 1].close - past_close) * SCALE) \div past_close
                  IN  sigmoid((relative_change * SCALE) \div scale)

\* _momentum_positive_bonus(closes, index, lookback, scale)
momentum_positive_bonus(closes, index, lookback, scale) ==
    IF index < lookback * 2 \/ scale = 0 THEN Blank
    ELSE LET current_close == closes[index + 1].close
             prev_close == closes[index + 1 - lookback].close
             earlier_close == closes[index + 1 - lookback].close
             earlier_prev_close == closes[index + 1 - lookback * 2].close
         IN  IF prev_close = 0 \/ earlier_prev_close = 0 THEN Blank
             ELSE LET current_return == percentage_change(current_close, prev_close)
                      previous_return == percentage_change(earlier_close, earlier_prev_close)
                      momentum_change == ((current_return - previous_return) * SCALE) \div scale
                      bonus == (sigmoid(momentum_change) - NEUTRAL) * 2
                  IN  Max2(bonus, 0)

\* _long_term_down: blank when the spread is missing, else 1 or 0
long_term_down_cell(spread) ==
    IF spread = Blank THEN Blank ELSE IF spread < NEUTRAL THEN ONE ELSE 0

\* _cell: the value, or a blank cell for None
cell(value) == value

\* _complement treating a missing value as 0
complement_of_zero(value) == IF value = Blank THEN ONE ELSE ONE - value

\* _complement: 1 - value, or a blank cell for None
complement(value) == IF value = Blank THEN Blank ELSE ONE - value

\* _build_feature_row(closes, index, ma_by_window), index counted from 0;
\* ma_by_window[w] is the list of averages of window w
build_feature_row(closes, index, ma_by_window) ==
    LET ma50 == ma_by_window[50][index + 1].avg
        ma120 == ma_by_window[120][index + 1].avg
        ma280 == ma_by_window[280][index + 1].avg
        logistic_50_120 == logistic_spread(ma50, ma120, LOGISTIC_K1)
        logistic_50_280 == logistic_spread(ma50, ma280, LOGISTIC_K2)
        logistic_ret == logistic_return(closes, index, VELOCITY_LOOKBACK, VELOCITY_SCALE)
        momentum_bonus ==
            momentum_positive_bonus(closes, index, VELOCITY_LOOKBACK, MOMENTUM_SCALE)
    IN  [date |-> closes[index + 1].date,
         close |-> closes[index + 1].close,
         ma_50 |-> cell(ma50), ma_120 |-> cell(ma120), ma_280 |-> cell(ma280),
         base |-> [logistic_ma_spread_50_120 |-> cell(logistic_50_120),
                   logistic_ma_spread_50_280 |-> cell(logistic_50_280),
                   logistic_return_scaled_21 |-> cell(logistic_ret),
                   momentum_positive_bonus |-> cell(momentum_bonus)],
         complement |-> [logistic_ma_spread_50_120 |-> complement(logistic_50_120),
                         logistic_ma_spread_50_280 |-> complement(logistic_50_280),
                         logistic_return_scaled_21 |-> complement(logistic_ret),
                         momentum_positive_bonus |-> complement(momentum_bonus)],
         long_term_down |-> long_term_down_cell(logistic_50_280)]

\* _parse_close: the number in the cell; a cell without one raises
parse_close(value) == IF value.amount = Blank THEN Raise ELSE value.amount

\* _parse_date: the day; a cell in no known format raises
parse_date(date_str) == IF date_str = Blank THEN Raise ELSE date_str

\* _parse_closes: (date, close) per raw row, sorted oldest first
parse_closes(rows) ==
    sort_by_date([i \in 1..Len(rows) |->
                     [date |-> parse_date(rows[i].Date),
                      close |-> parse_close(rows[i].Close)]])

BuildFailure(kind, missing) == [error |-> kind, missing |-> missing, rows |-> <<>>]

\* REQUIRED_WINDOWS - set(windows), naming every required window
missing_windows_all(windows) == REQUIRED_WINDOWS

\* REQUIRED_WINDOWS - set(windows): the required windows not asked for
missing_windows(windows) == REQUIRED_WINDOWS \ {windows[i] : i \in 1..Len(windows)}

\* build_moving_average_csv: raw_file is data/raw/{ticker}.csv as
\* [exists, rows], windows the sequence of windows asked for.  Returns the
\* error raised, or the rows handed to write_csv (newest first).
build_moving_average_csv(raw_file, windows) ==
    LET rows == raw_file.rows
        bad == {i \in 1..Len(rows) : rows[i].Date = Blank \/ rows[i].Close.amount = Blank}
        first_bad == CHOOSE i \in bad : \A j \in bad : i <= j
        closes == parse_closes(rows)
        window_set == {windows[i] : i \in 1..Len(windows)}
        missing == missing_windows(windows)
        series == [i \in 1..Len(closes) |->
                      [date |-> closes[i].date, price |-> closes[i].close]]
        ma_by_window == [w \in window_set |-> moving_average(series, w).values]
        n == Len(closes)
    IN  IF ~raw_file.exists THEN BuildFailure("FileNotFoundError: CSV not found", {})
        ELSE IF rows = <<>> THEN BuildFailure("FileNotFoundError: No data found", {})
        ELSE IF bad # {}
        THEN (IF rows[first_bad].Date = Blank
              THEN BuildFailure("ValueError: Unrecognized date format", {})
              ELSE BuildFailure("ValueError: could not convert string to float", {}))
        ELSE IF missing # {}
        THEN BuildFailure("ValueError: Missing required windows", missing)
        ELSE IF \E w \in window_set : w <= 0
        THEN BuildFailure("ValueError: window must be a positive integer", {})
        ELSE [error |-> "", missing |-> {},
              rows |-> [j \in 1..n |-> build_feature_row(closes, n - j, ma_by_window)]]

(***************************************************************************)
(* data/fetch_history.py, data/fetch_history_massive.py, config/secrets.py *)
(* and actions/fetch_history_massive.py.  A date is the number of its day  *)
(* (ISO date strings order as their days do); an empty Date cell is Blank, *)
(* which orders before every day as "" orders before every string.        *)
(***************************************************************************)
TODAY == 8
MaxMerge == 2

\* a row of a raw CSV
RawRow(symbol, date, dollar, amount) == [Symbol |-> symbol, Date |-> date, Close |-> [dollar |-> dollar, amount |-> amount]]

\* the keys of a dict in sorted order
RECURSIVE sorted(_)
sorted(keys) ==
    IF keys = {} THEN <<>>
    ELSE LET least == CHOOSE k \in keys : \A other \in keys : k <= other
         IN  <<least>> \o sorted(keys \ {least})

\* the value a dict built from rows holds under a key: the last row with it
last_with_date(rows, date) ==
    rows[CHOOSE i \in 1..Len(rows) : rows[i].Date = date /\ \A j \in (i + 1)..Len(rows) : rows[j].Date # date]

dates_of(rows) == {rows[i].Date : i \in 1..Len(rows)}

\* merge_rows: a dict of the existing rows that have a Date, overwritten by
\* every new row (with a Date or not), listed in the order of its keys
merge_rows(existing_rows, new_rows) ==
    LET kept == dates_of(existing_rows) \ {Blank}
        fresh == dates_of(new_rows)
        keys == sorted(kept \cup fresh)
    IN  [k \in 1..Len(keys) |-> IF keys[k] \in fresh THEN last_with_date(new_rows, keys[k]) ELSE last_with_date(existing_rows, keys[k])]

\* sorted(rows, key=Date, reverse=True): newest first, rows of one date in
\* the order they came
RECURSIVE newest_first(_)
newest_first(rows) ==
    IF rows = <<>> THEN <<>>
    ELSE LET first == CHOOSE i \in 1..Len(rows) : (\A j \in 1..Len(rows) : rows[j].Date <= rows[i].Date) /\ (\A j \in 1..(i - 1) : rows[j].Date # rows[i].Date)
         IN  <<rows[first]>> \o newest_first(SubSeq(rows, 1, first - 1) \o SubSeq(rows, first + 1, Len(rows)))

\* write_raw_csv: the file the rows are written to
write_raw_csv(rows) == [exists |-> TRUE, rows |-> newest_first(rows)]

\* load_raw_rows: no rows for a missing file, else the rows of the file
\* (the cells of a file with the canonical header come back as they are)
load_raw_rows(raw_file) == IF raw_file.exists THEN raw_file.rows ELSE <<>>

\* extract_dates: the dates of the rows that have one
extract_dates(rows) == dates_of(rows) \ {Blank}

set_max(S) == CHOOSE x \in S : \A y \in S : y <= x

set_min(S) == CHOOSE x \in S : \A y \in S : x <= y

\* _has_coverage
has_coverage(existing_dates, start, end) ==
    IF existing_dates = {} THEN FALSE
    ELSE LET oldest == set_min(existing_dates)
             newest == set_max(existing_dates)
         IN  /\ oldest <= start /\ start <= newest
             /\ oldest <= end /\ end <= newest
             /\ start \in existing_dates
             /\ end \in existing_dates

\* _resolve_window: None stands for an option not given and for no start
resolve_window(existing_dates, requested_start, requested_end) ==
    LET end == IF requested_end # None THEN requested_end ELSE TODAY
        latest == IF existing_dates # {} THEN set_max(existing_dates) ELSE None
    IN  IF requested_start # None THEN [start |-> requested_start, end |-> end]
        ELSE [start |-> latest, end |-> end]

\* the bars of an answer as canonical rows
rows_of(symbol, results) == [i \in 1..Len(results) |-> RawRow(symbol, IF results[i].t # None THEN results[i].t ELSE Blank, FALSE, results[i].c)]

\* fetch_daily_ohlcv returning an empty list when the answer has no bars
fetch_daily_ohlcv_empty(symbol, answer) ==
    IF answer.kind = "http" THEN [error |-> "RuntimeError: Massive returned HTTP", rows |-> <<>>]
    ELSE IF answer.kind = "transport" THEN [error |-> "RuntimeError: Massive request failed", rows |-> <<>>]
    ELSE [error |-> "", rows |-> rows_of(symbol, answer.results)]

\* fetch_daily_ohlcv: the rows of the answer, or the error raised
fetch_daily_ohlcv(symbol, answer) ==
    IF answer.kind = "http" THEN [error |-> "RuntimeError: Massive returned HTTP", rows |-> <<>>]
    ELSE IF answer.kind = "transport" THEN [error |-> "RuntimeError: Massive request failed", rows |-> <<>>]
    ELSE IF answer.results = <<>> THEN [error |-> "RuntimeError: No OHLCV data returned", rows |-> <<>>]
    ELSE [error |-> "", rows |-> rows_of(symbol, answer.results)]

\* massive_credentials: raises when MASSIVE_API_KEY is missing or blank
massive_credentials(env) == IF env.MASSIVE_API_KEY = "" THEN [error |-> "ValueError: MASSIVE_API_KEY missing"] ELSE [error |-> ""]

(***************************************************************************)
(* The inputs: feature tables and settings files.                          *)
(***************************************************************************)
BASE_PRICE == 100
LOW_PRICE == 80

AllOf(v) == [k \in FeatureNames |-> v]

\* feature cells of one row: nothing filled in (too little history)
ProfileBlank ==
    [base |-> AllOf(Blank), complement |-> AllOf(Blank), long_term_down |-> Blank,
     ma_50 |-> Blank, ma_120 |-> Blank, ma_280 |-> Blank]

\* a bullish row as the feature builder writes it (complement = 1 - value)
ProfileBull ==
    [base |-> [logistic_ma_spread_50_120 |-> 6000, logistic_ma_spread_50_280 |-> 9000,
               logistic_return_scaled_21 |-> 7000, momentum_positive_bonus |-> 2000],
     complement |-> [logistic_ma_spread_50_120 |-> 4000, logistic_ma_spread_50_280 |-> 1000,
                     logistic_return_scaled_21 |-> 3000, momentum_positive_bonus |-> 8000],
     long_term_down |-> 0, ma_50 |-> 110, ma_120 |-> 105, ma_280 |-> 100]

\* a bearish row of a table without complement and flag columns
ProfileBear ==
    [base |-> [logistic_ma_spread_50_120 |-> 2000, logistic_ma_spread_50_280 |-> 1000,
               logistic_return_scaled_21 |-> 2000, momentum_positive_bonus |-> 0],
     complement |-> AllOf(Blank), long_term_down |-> Blank,
     ma_50 |-> Blank, ma_120 |-> 105, ma_280 |-> 110]

\* rows whose complement columns do not mirror the base columns, so that
\* both scores are high: the long margin is the larger one ...
ProfileBothLong ==
    [base |-> AllOf(9000), complement |-> AllOf(9000), long_term_down |-> ONE,
     ma_50 |-> 100, ma_120 |-> 105, ma_280 |-> 100]

\* ... and the short margin is the larger one
ProfileBothShort ==
    [base |-> AllOf(8000), complement |-> AllOf(9500), long_term_down |-> 0,
     ma_50 |-> 100, ma_120 |-> 105, ma_280 |-> 110]

\* a row with some feature cells and some complement cells filled in
ProfileMixed ==
    [base |-> [logistic_ma_spread_50_120 |-> Blank, logistic_ma_spread_50_280 |-> 7000,
               logistic_return_scaled_21 |-> Blank, momentum_positive_bonus |-> 3000],
     complement |-> [logistic_ma_spread_50_120 |-> 2000, logistic_ma_spread_50_280 |-> Blank,
                     logistic_return_scaled_21 |-> Blank, momentum_positive_bonus |-> 9000],
     long_term_down |-> Blank, ma_50 |-> Blank, ma_120 |-> Blank, ma_280 |-> Blank]

Profiles == <<ProfileBlank, ProfileBull, ProfileBear, ProfileBothLong, ProfileBothShort, ProfileMixed>>

Shapes == {"flat", "zigzag1", "zigzag2", "crash_stay", "crash_recover"}

\* the close of the i-th oldest row of a table of the given shape
close_at(i, shape) ==
    CASE shape = "flat" -> BASE_PRICE
      [] shape = "zigzag1" -> BASE_PRICE + (i % 2)
      [] shape = "zigzag2" -> BASE_PRICE + 2 * (i % 2)
      [] shape = "crash_stay" -> IF i = 1 THEN BASE_PRICE ELSE LOW_PRICE + (i % 2)
      [] shape = "crash_recover" -> IF i = 2 THEN LOW_PRICE ELSE BASE_PRICE + (i % 2)

\* the i-th oldest row of the table p: the last row carries the profile
\* p.last and is dated one day after a missing day when p.gap = 1, on the
\* day of the row before it when p.gap = -1
row_at(i, p) ==
    LET prof == IF i = p.n THEN Profiles[p.last]
                ELSE IF i % 2 = 0 THEN ProfileBull ELSE ProfileBear
    IN  [date |-> IF i = p.n THEN i + p.gap ELSE i,
         close |-> IF i = p.hole THEN Blank ELSE close_at(i, p.shape),
         ma_50 |-> prof.ma_50, ma_120 |-> prof.ma_120, ma_280 |-> prof.ma_280,
         base |-> prof.base, complement |-> prof.complement,
         long_term_down |-> prof.long_term_down]

\* the rows as read_csv returns them: the feature builder writes the newest
\* row first (p.newest_first), other tables are oldest first
MkTable(p) ==
    [j \in 1..p.n |-> row_at(IF p.newest_first THEN p.n + 1 - j ELSE j, p)]

NoFile == [exists |-> FALSE, data |-> [k \in {} |-> 0]]

\* a settings file with a negative volatility target
FileNegativeTarget == [exists |-> TRUE, data |-> [target_vol |-> -1200]]

\* a settings file that overrides part of a nested dictionary
FileLowEntry ==
    [exists |-> TRUE,
     data |-> [entry_thresholds |-> [LOW_VOL |-> [long |-> 3000, short |-> 3000]],
               cooldown_days |-> 70]]

\* a settings file that overrides top-level numbers only
FileStrict == [exists |-> TRUE, data |-> [vol_threshold |-> 1000, exit_threshold |-> 7200]]

SettingsFiles == {NoFile, FileNegativeTarget, FileLowEntry, FileStrict}

Param(n, shape, last, gap, hole) ==
    [n |-> n, shape |-> shape, last |-> last, gap |-> gap,
     newest_first |-> (gap = 1), hole |-> hole]

LongLens == (VOL_WINDOW + 1)..MaxRows

\* the scenarios: a table on disk and the settings file next to it
Scenarios ==
    \* calm market, every kind of last row, default settings
    { <<Param(n, "zigzag1", v, g, 0), NoFile>> :
          n \in LongLens, v \in 1..Len(Profiles), g \in {0, 1} }
    \* volatile market
    \cup { <<Param(MaxRows, "zigzag2", v, 0, 0), NoFile>> : v \in {2, 3, 4} }
    \* calm market, each settings file
    \cup { <<Param(MaxRows, "zigzag1", v, 1, 0), f>> :
          v \in {1, 2, 5}, f \in SettingsFiles \ {NoFile} }
    \* a drawdown stop in the history
    \cup { <<Param(n, sh, 2, 0, 0), f>> :
          n \in LongLens, sh \in {"crash_stay", "crash_recover"},
          f \in {NoFile, FileLowEntry} }
    \cup { <<Param(MaxRows, "crash_stay", v, 0, 0), NoFile>> : v \in {3, 4, 5} }
    \* no price movement at all
    \cup { <<Param(MaxRows, "flat", 2, 0, 0), NoFile>> }
    \* less history than the volatility window, with and without a blank close
    \cup { <<Param(ShortRows, sh, 2, 1, h), NoFile>> :
          sh \in {"zigzag1", "crash_recover"}, h \in {0, 1} }
    \* two rows with the same date
    \cup { <<Param(ShortRows, "zigzag1", 4, -1, 0), NoFile>> }

\* the dates a caller asks for: none, before every row, the day before the
\* latest row, the latest row and the day after it
SignalDates(rows) ==
    IF rows = <<>> THEN {None, 1}
    ELSE LET latest == max_date(rows)
         IN  {None, 0, latest - 1, latest, latest + 1}

(***************************************************************************)
(* State.                                                                  *)
(***************************************************************************)
VARIABLES
    csv_file,           \* the rows of the feature table on disk
    settings_file,      \* the settings file on disk
    DEFAULT_SETTINGS,   \* the module global of data/io.py
    report_file,        \* the report sink: <<>> or <<report>>
    result,             \* what the last call returned: <<>> or <<SignalResult>>
    error,              \* what the last call raised, "" if nothing
    report_path,        \* whether the process passes a report path to the engine
    call,               \* the arguments of the last call: <<>> or <<arguments>>
    pc,                 \* position inside the function under evaluation
    args,               \* the arguments of the function under evaluation
    ret,                \* its local variables and return value
    raw_dir,            \* data/raw: the raw CSV of each symbol
    processed_dir,      \* data/processed: the feature CSV of each symbol
    massive,            \* the Massive service: its answer for each symbol
    log,                \* the lines a batch action has printed
    exit_status,        \* the exit status of a batch action, None while it runs
    cursor              \* the position of a batch action in its symbol list

vars == <<csv_file, settings_file, DEFAULT_SETTINGS, report_file, result, error,
          report_path, call, pc, args, ret,
          raw_dir, processed_dir, massive, log, exit_status, cursor>>

Batch == <<raw_dir, processed_dir, massive, log, exit_status, cursor>>

\* no batch action runs
BatchIdle ==
    /\ raw_dir = <<>> /\ processed_dir = <<>> /\ massive = <<>>
    /\ log = <<>> /\ exit_status = None /\ cursor = 0

(***************************************************************************)
(* The engine as a process: one call of run_signal_engine per step.        *)
(***************************************************************************)
Init ==
    /\ \/ \E sc \in Scenarios : csv_file = MkTable(sc[1]) /\ settings_file = sc[2]
       \/ csv_file = <<>> /\ settings_file = NoFile
    /\ report_path \in BOOLEAN
    /\ DEFAULT_SETTINGS = DefaultSettingsInit
    /\ report_file = <<>>
    /\ result = <<>>
    /\ error = ""
    /\ call = <<>>
    /\ pc = "engine"
    /\ args = <<>>
    /\ ret = <<>>
    /\ BatchIdle

RunSignalEngine(use_settings, signal_date) ==
    \E out \in {run_signal_engine(DEFAULT_SETTINGS, csv_file,
                                  IF use_settings THEN settings_file ELSE NoFile,
                                  report_file, report_path, signal_date)} :
        /\ pc = "engine"
        /\ DEFAULT_SETTINGS' = out.defaults
        /\ report_file' = out.report
        /\ result' = out.result
        /\ error' = out.error
        /\ call' = <<[settings_path |-> use_settings, report_path |-> report_path,
                      signal_date |-> signal_date]>>
        /\ UNCHANGED <<csv_file, settings_file, report_path, pc, args, ret, Batch>>

Next ==
    \E use_settings \in BOOLEAN, signal_date \in SignalDates(csv_file) :
        RunSignalEngine(use_settings, signal_date)

Spec == Init /\ [][Next]_vars

(***************************************************************************)
(* The helpers on their own: one call of one function, its arguments drawn *)
(* from bounded sets.  _apply_gates is stepped statement by statement.     *)
(***************************************************************************)
\* scores and thresholds: 0.30, 0.35, ..., 0.90
ScoreValues == {500 * k : k \in 6..18}

ThresholdPairs ==
    { DefaultSettingsInit.entry_thresholds.LOW_VOL,
      DefaultSettingsInit.entry_thresholds.HIGH_VOL,
      [long |-> 3000, short |-> 3000] }

Regimes == {"LOW_VOL", "HIGH_VOL"}

GateCalls ==
    [fn : {"_apply_gates"}, score_up : ScoreValues, score_dn : ScoreValues,
     regime : Regimes, long_term_down : {0, 1}, cooldown_active : BOOLEAN,
     thresholds : ThresholdPairs, exit_threshold : {4500, 7200}]

SizeCalls ==
    [fn : {"_size_positions"}, vol_today : {0, 500, 1000, 1571, 2200, 3000, 4000},
     regime : Regimes, take_long : BOOLEAN, take_short : BOOLEAN,
     target_vol : {-1200, 0, 1200, 6000}]

ConflictCalls ==
    [fn : {"_resolve_conflict"}, long_weight : {-2000, 0, 2000, 4000, 10000},
     short_weight : {-2000, 0, 2000, 4000, 10000},
     margin_long : {-1000, 0, 1000, 2500, 3000},
     margin_short : {-1000, 0, 1000, 2500, 3000}]

CooldownCalls ==
    [fn : {"cooldown_active"}, ndates : 0..MaxDates,
     last_stop_idx : {None} \cup 0..(MaxDates - 1), cooldown_days : 0..MaxCooldown]

\* every sequence over S of length 0..n
SeqsUpTo(S, n) == UNION {[1..k -> S] : k \in 0..n}

StopCalls ==
    [fn : {"last_stop_index"},
     drawdown_values : SeqsUpTo({-2000, -1500, -1000, 0}, MaxSeries - 1),
     stop_level : {-1500, -1000, 0, 1000, 1500}]

\* the i-th pair of a series is dated 10 * i
DatedSeries(prices) == [i \in 1..Len(prices) |-> [date |-> 10 * i, price |-> prices[i]]]

AverageCalls ==
    [fn : {"moving_average"}, prices : SeqsUpTo(1..4, MaxSeries),
     window : -1..(MaxSeries + 1)]

DrawdownCalls ==
    [fn : {"drawdowns"}, prices : SeqsUpTo({-2, 0, 1, 2, 4}, MaxSeries)]

\* rows on disk and rows just fetched, with and without a date
MergeCalls ==
    [fn : {"merge_rows"},
     existing_rows : SeqsUpTo({RawRow("QQQ", d, TRUE, c) : d \in {Blank, 1, 2}, c \in {10, 11}}, MaxMerge),
     new_rows : SeqsUpTo({RawRow("QQQ", d, FALSE, c) : d \in {Blank, 1, 2}, c \in {20, 21}}, MaxMerge)]

\* the settings a call decides with: the defaults, and the defaults with
\* each settings file of the model merged in
DecideSettings == {deep_update(DefaultSettingsInit, f.data) : f \in SettingsFiles}

\* realized volatilities: none, 5%, around 10%, around the default
\* threshold of 22%, and 30%
DecideVols == {0, 500, 999, 1000, 1001, 2199, 2200, 2201, 3000}

\* the snapshot row of each profile, normalized, with the metrics of the
\* series before it: no stop, a stop three rows ago, a stop twelve rows ago
DecideCalls ==
    [fn : {"decide"},
     latest : {normalize_row([date |-> 5, close |-> BASE_PRICE, ma_50 |-> Profiles[v].ma_50, ma_120 |-> Profiles[v].ma_120, ma_280 |-> Profiles[v].ma_280, base |-> Profiles[v].base, complement |-> Profiles[v].complement, long_term_down |-> Profiles[v].long_term_down]) : v \in 1..Len(Profiles)},
     settings : DecideSettings,
     vol_today : DecideVols,
     cd : {<<FALSE, 0>>, <<TRUE, 3>>, <<FALSE, 12>>}]

FnCalls ==
    GateCalls \cup SizeCalls \cup ConflictCalls \cup CooldownCalls \cup StopCalls
    \cup AverageCalls \cup DrawdownCalls \cup MergeCalls \cup DecideCalls

InitFn ==
    /\ csv_file = <<>>
    /\ settings_file = NoFile
    /\ DEFAULT_SETTINGS = DefaultSettingsInit
    /\ report_file = <<>>
    /\ result = <<>>
    /\ error = ""
    /\ report_path = FALSE
    /\ call = <<>>
    /\ pc = "call"
    /\ args \in FnCalls
    /\ ret = <<>>
    /\ BatchIdle

Engine == <<csv_file, settings_file, DEFAULT_SETTINGS, report_file, result, error,
            report_path, call>>

GatesLongEntry ==
    /\ pc = "call" /\ args.fn = "_apply_gates"
    /\ ret' = [take_long |-> gate_long_entry(args.score_up, args.thresholds)]
    /\ pc' = "L278"
    /\ UNCHANGED <<Engine, Batch, args>>

GatesLongHighVol ==
    /\ pc = "L278"
    /\ ret' = [take_long |-> gate_long_high_vol(ret.take_long, args.regime, args.score_up)]
    /\ pc' = "L280"
    /\ UNCHANGED <<Engine, Batch, args>>

GatesShortEntry ==
    /\ pc = "L280"
    /\ ret' = [take_long |-> ret.take_long,
               take_short |-> gate_short_entry(args.score_dn, args.thresholds)]
    /\ pc' = "L281"
    /\ UNCHANGED <<Engine, Batch, args>>

GatesShortHighVol ==
    /\ pc = "L281"
    /\ ret' = [ret EXCEPT !.take_short =
                   gate_short_high_vol(ret.take_short, args.regime,
                                       args.long_term_down, args.score_dn)]
    /\ pc' = "L283"
    /\ UNCHANGED <<Engine, Batch, args>>

GatesLongExit ==
    /\ pc = "L283"
    /\ ret' = [ret EXCEPT !.take_long =
                   gate_exit(ret.take_long, args.score_up, args.exit_threshold)]
    /\ pc' = "L285"
    /\ UNCHANGED <<Engine, Batch, args>>

GatesShortExit ==
    /\ pc = "L285"
    /\ ret' = [ret EXCEPT !.take_short =
                   gate_exit(ret.take_short, args.score_dn, args.exit_threshold)]
    /\ pc' = "L287"
    /\ UNCHANGED <<Engine, Batch, args>>

GatesCooldown ==
    /\ pc = "L287"
    /\ ret' = [take_long |-> gate_cooldown(ret.take_long, args.cooldown_active),
               take_short |-> gate_cooldown(ret.take_short, args.cooldown_active)]
    /\ pc' = "done"
    /\ UNCHANGED <<Engine, Batch, args>>

CallSizePositions ==
    /\ pc = "call" /\ args.fn = "_size_positions"
    /\ ret' = size_positions(args.vol_today, args.regime, args.take_long,
                             args.take_short, args.target_vol)
    /\ pc' = "done"
    /\ UNCHANGED <<Engine, Batch, args>>

CallResolveConflict ==
    /\ pc = "call" /\ args.fn = "_resolve_conflict"
    /\ ret' = resolve_conflict(args.long_weight, args.short_weight,
                               args.margin_long, args.margin_short)
    /\ pc' = "done"
    /\ UNCHANGED <<Engine, Batch, args>>

CallCooldownActive ==
    /\ pc = "call" /\ args.fn = "cooldown_active"
    /\ ret' = cooldown_active([i \in 1..args.ndates |-> i], args.last_stop_idx,
                              args.cooldown_days)
    /\ pc' = "done"
    /\ UNCHANGED <<Engine, Batch, args>>

CallLastStopIndex ==
    /\ pc = "call" /\ args.fn = "last_stop_index"
    /\ ret' = last_stop_index(args.drawdown_values, args.stop_level)
    /\ pc' = "done"
    /\ UNCHANGED <<Engine, Batch, args>>

CallMovingAverage ==
    /\ pc = "call" /\ args.fn = "moving_average"
    /\ ret' = moving_average(DatedSeries(args.prices), args.window)
    /\ pc' = "done"
    /\ UNCHANGED <<Engine, Batch, args>>

CallDrawdowns ==
    /\ pc = "call" /\ args.fn = "drawdowns"
    /\ ret' = drawdowns(args.prices)
    /\ pc' = "done"
    /\ UNCHANGED <<Engine, Batch, args>>

CallMergeRows ==
    /\ pc = "call" /\ args.fn = "merge_rows"
    /\ ret' = merge_rows(args.existing_rows, args.new_rows)
    /\ pc' = "done"
    /\ UNCHANGED <<Engine, Batch, args>>

CallDecide ==
    /\ pc = "call" /\ args.fn = "decide"
    /\ ret' = decide(args.latest, args.settings, args.vol_today, args.cd)
    /\ pc' = "done"
    /\ UNCHANGED <<Engine, Batch, args>>

NextFn ==
    \/ GatesLongEntry \/ GatesLongHighVol \/ GatesShortEntry \/ GatesShortHighVol
    \/ GatesLongExit \/ GatesShortExit \/ GatesCooldown
    \/ CallSizePositions \/ CallResolveConflict \/ CallCooldownActive
    \/ CallLastStopIndex \/ CallMovingAverage \/ CallDrawdowns
    \/ CallMergeRows \/ CallDecide

SpecFn == InitFn /\ [][NextFn]_vars

(***************************************************************************)
(* Properties of the engine (checked under Spec).                          *)
(***************************************************************************)
Returned == result # <<>>

\* C1: for every SignalResult returned by run_signal_engine, whatever the
\* feature table and the settings, long_weight + short_weight + cash_weight
\* is 1.0 and cash_weight is clamp(1 - (long_weight + short_weight), 0, 1).
C1_WeightsSumToOne ==
    Returned =>
        LET r == result[1]
        IN  /\ r.long_weight + r.short_weight + r.cash_weight = ONE
            /\ r.cash_weight = clamp(ONE - (r.long_weight + r.short_weight), 0, ONE)

\* C2: in every SignalResult the long and the short weight are never both
\* positive.
C2_NeverBothPositive ==
    Returned => ~(result[1].long_weight > 0 /\ result[1].short_weight > 0)

\* both flags were set, the sized weight was positive, and only the short
\* side was left with it
C2_Witness ==
    /\ Returned
    /\ result[1].take_long /\ result[1].take_short
    /\ result[1].long_weight = 0 /\ result[1].short_weight > 0

\* C3: whenever the cooldown is active both flags are false, whatever the
\* scores, the regime, the long-term-down flag and the thresholds, so both
\* weights are 0 and the cash weight is 1.
C3_CooldownOverrides ==
    (Returned /\ result[1].notes[2].active) =>
        LET r == result[1]
        IN  /\ ~r.take_long /\ ~r.take_short
            /\ r.long_weight = 0 /\ r.short_weight = 0
            /\ r.cash_weight = ONE

\* the cooldown is active on a day whose short score passes every other gate
C3_Witness ==
    /\ Returned
    /\ result[1].notes[2].active
    /\ result[1].regime = "LOW_VOL"
    /\ result[1].score_dn >= DEFAULT_SETTINGS.entry_thresholds.LOW_VOL.short
    /\ result[1].score_dn >= DefaultSettingsInit.exit_threshold
    /\ ~result[1].take_short /\ result[1].cash_weight = ONE

\* C6: a call of run_signal_engine with a signal_date later than the latest
\* date of the feature table raises an error, returns no SignalResult and
\* leaves the report sink as it was.
C6_DateAfterLatest ==
    [][(/\ call' # <<>>
        /\ csv_file # <<>>
        /\ call'[1].signal_date # None
        /\ call'[1].signal_date > max_date(csv_file))
       => (error' # "" /\ result' = <<>> /\ report_file' = report_file)]_vars

\* the last call asked for a date after the latest row and failed; the
\* report of an earlier call is still in the sink
C6_Witness ==
    /\ call # <<>> /\ csv_file # <<>>
    /\ call[1].signal_date > max_date(csv_file)
    /\ error = "ValueError: requested date exceeds latest available"
    /\ result = <<>>
    /\ report_file # <<>>

\* the table has a close in every row (no row makes _normalize_row raise)
TableValid == csv_file # <<>> /\ \A i \in 1..Len(csv_file) : ~IsBlank(csv_file[i].close)

\* the date the last call decides for
Requested ==
    IF call[1].signal_date = None THEN max_date(csv_file) ELSE call[1].signal_date

\* the positions, in the file, of the rows dated on or before d
OnOrBefore(d) == {i \in 1..Len(csv_file) : csv_file[i].date <= d}

\* the position of the snapshot row for d: of the rows on or before d with
\* the latest date, the last one in the file
SnapshotIndex(d) ==
    CHOOSE i \in OnOrBefore(d) :
        \A j \in OnOrBefore(d) :
            \/ csv_file[j].date < csv_file[i].date
            \/ (csv_file[j].date = csv_file[i].date /\ j <= i)

\* the settings the last call decided with
SettingsUsed ==
    load_settings(DEFAULT_SETTINGS,
                  IF call[1].settings_path THEN settings_file ELSE NoFile).settings

\* C7 as stated: when a signal_date D not later than the latest available
\* date is requested, the decision is computed from the row dated D and
\* SignalResult.date equals D (taken here only for a D that is not before
\* the first row of the table).
C7_RowDatedRequested ==
    (/\ call # <<>> /\ TableValid
     /\ call[1].signal_date # None
     /\ call[1].signal_date <= max_date(csv_file)
     /\ OnOrBefore(call[1].signal_date) # {})
    => (Returned /\ result[1].date = call[1].signal_date)

\* C7 as amended: when a signal_date D not later than the latest available
\* date is requested, the decision is computed from the last row dated on
\* or before D and SignalResult.date is the date of that row (D itself
\* when the table has a row dated D); when no row is dated on or before D
\* an error is raised and there is no result; when no date is requested the
\* row with the latest date in the table is used.
C7_SnapshotOnOrBefore ==
    (call # <<>> /\ TableValid /\ Requested <= max_date(csv_file)) =>
        IF OnOrBefore(Requested) = {}
        THEN error # "" /\ ~Returned
        ELSE LET row == normalize_row(csv_file[SnapshotIndex(Requested)])
                 features == prepare_features(row)
             IN  /\ error = "" /\ Returned
                 /\ result[1].date = row.date
                 /\ (\E i \in 1..Len(csv_file) : csv_file[i].date = Requested)
                        => result[1].date = Requested
                 /\ call[1].signal_date = None => result[1].date = max_date(csv_file)
                 /\ result[1].trend = trend_label(row)
                 /\ result[1].score_up = score(features.up, SettingsUsed.weights.up)
                 /\ result[1].score_dn = score(features.down, SettingsUsed.weights.down)

\* a date inside the table's range on which the table has no row: the
\* decision is the one of the row before it, in a table read newest first
C7_Witness ==
    /\ call # <<>> /\ TableValid /\ Returned
    /\ call[1].signal_date # None
    /\ call[1].signal_date < max_date(csv_file)
    /\ \A i \in 1..Len(csv_file) : csv_file[i].date # call[1].signal_date
    /\ result[1].date < call[1].signal_date
    /\ csv_file[1].date > csv_file[Len(csv_file)].date

\* C20: load_settings called with no path or a missing file returns
\* exactly the built-in default values, after any sequence of earlier
\* load_settings calls in the same process, including earlier calls that
\* merged overrides into nested keys (entry_thresholds, weights); an
\* override applied in one load never leaks into a later load.  In every
\* state the engine process reaches, the call with no file returns the
\* built-in defaults
C20_DefaultsAfterLoads ==
    load_settings(DEFAULT_SETTINGS, NoFile).settings = DefaultSettingsInit

\* the decision fields of a result that two runs are compared on
Decision(r) ==
    <<r.take_long, r.take_short, r.long_weight, r.short_weight, r.cash_weight, r.notes>>

\* the run of a process that has made no call before, on the table, the
\* settings file and the date of the last call
FirstRun ==
    run_signal_engine(DefaultSettingsInit, csv_file,
                      IF call[1].settings_path THEN settings_file ELSE NoFile,
                      report_file, report_path, call[1].signal_date)

\* C22: determinism: two runs of the engine on the same feature table, the
\* same requested date and the same settings produce identical take_long,
\* take_short, long/short/cash weights and identical notes lines.  Every
\* run a process makes decides as the first run of a process does on the
\* same table, settings file and date
C22_Deterministic ==
    (call # <<>> /\ Returned) =>
        /\ FirstRun.result # <<>>
        /\ Decision(result[1]) = Decision(FirstRun.result[1])

\* the up-features the claim describes for a row of the file: a blank cell
\* counts as 0.5
NormalizedUp(row) ==
    [k \in FeatureNames |-> IF IsBlank(row.base[k]) THEN NEUTRAL ELSE row.base[k]]

\* the down-features the claim describes: the complement cell when it has a
\* value, else the mirror of the up-feature
NormalizedDown(row) ==
    [k \in FeatureNames |->
        IF IsBlank(row.complement[k]) THEN ONE - NormalizedUp(row)[k]
        ELSE row.complement[k]]

\* C23: row normalization: each of the four engineered base features that
\* is missing or blank in a row is replaced by 0.5; a row whose close price
\* is missing or blank makes the run fail with an error and no
\* SignalResult; a complement cell with a value is used verbatim as the
\* down-feature, otherwise the down-feature is 1 - base.  The scores of a
\* result are the weighted sums of these features of the snapshot row
C23_RowNormalization ==
    call # <<>> =>
        /\ (\E i \in 1..Len(csv_file) : IsBlank(csv_file[i].close))
              => (error # "" /\ result = <<>>)
        /\ Returned =>
              LET row == csv_file[SnapshotIndex(Requested)]
              IN  /\ result[1].score_up = score(NormalizedUp(row), SettingsUsed.weights.up)
                  /\ result[1].score_dn = score(NormalizedDown(row), SettingsUsed.weights.down)

\* a decision from a row with blank features, a complement cell that does
\* not mirror its feature and a blank complement cell
C23_Witness ==
    /\ call # <<>> /\ Returned
    /\ LET row == csv_file[SnapshotIndex(Requested)]
       IN  /\ \E k \in FeatureNames : IsBlank(row.base[k])
           /\ \E k \in FeatureNames :
                 ~IsBlank(row.complement[k]) /\ row.complement[k] # ONE - NormalizedUp(row)[k]
           /\ \E k \in FeatureNames : IsBlank(row.complement[k]) /\ ~IsBlank(row.base[k])
           /\ result[1].score_dn = score(NormalizedDown(row), SettingsUsed.weights.down)

\* a table with a blank close has been run and has failed
C23_WitnessClose ==
    /\ call # <<>> /\ error # "" /\ result = <<>>
    /\ \E i \in 1..Len(csv_file) : IsBlank(csv_file[i].close)

\* the last call decided on fewer closes than the volatility window needs
InsufficientHistory ==
    /\ call # <<>> /\ Returned
    /\ Cardinality(OnOrBefore(Requested)) < VOL_WINDOW + 1

\* C25: insufficient history degrades to cash: when the series up to the
\* decision date has fewer than 64 closes, realized volatility is 0.0, so
\* asset volatility is not positive and the result has long_weight = 0 and
\* short_weight = 0 and cash_weight = 1 whatever the scores and take flags
\* are
C25_InsufficientHistoryIsCash ==
    InsufficientHistory =>
        /\ LET filtered == SelectSeq(csv_file, LAMBDA r : r.date <= Requested)
           IN  realized_volatility([i \in 1..Len(filtered) |-> filtered[i].close]) = 0
        /\ result[1].notes[1].vol_note = <<"unavailable">>
        /\ result[1].long_weight = 0
        /\ result[1].short_weight = 0
        /\ result[1].cash_weight = ONE

\* 63 closes on or before the decision date and a side taken by the gates
C25_Witness ==
    /\ InsufficientHistory
    /\ Cardinality(OnOrBefore(Requested)) = VOL_WINDOW
    /\ (result[1].take_long \/ result[1].take_short)
    /\ result[1].cash_weight = ONE

\* a row dated d, after the requested date, with the close c: a bearish
\* row at a price that breaches the stop when c is the low price
LaterRow(d, c) ==
    [date |-> d, close |-> c, ma_50 |-> Blank, ma_120 |-> 105, ma_280 |-> 110,
     base |-> ProfileBothShort.base, complement |-> ProfileBothShort.complement,
     long_term_down |-> ONE]

\* the rows of the table dated on or before d, in file order
RowsOnOrBefore(d) == SelectSeq(csv_file, LAMBDA r : r.date <= d)

\* tables with the rows of csv_file on or before d and other rows after d,
\* every row with a close: a crash appended, and two later rows put first
LaterTables(d) ==
    { RowsOnOrBefore(d) \o <<LaterRow(d + 1, LOW_PRICE)>>,
      <<LaterRow(d + 2, BASE_PRICE), LaterRow(d + 1, LOW_PRICE)>> \o RowsOnOrBefore(d) }

\* the same, with a later row whose close is blank
LaterTablesBlank(d) ==
    { RowsOnOrBefore(d) \o <<LaterRow(d + 1, Blank)>> }

\* the last call asked for a date that the table reaches
DateRequested ==
    /\ call # <<>> /\ csv_file # <<>>
    /\ call[1].signal_date # None
    /\ call[1].signal_date <= max_date(csv_file)

\* C27 as stated: no look-ahead: for a requested date D, two feature tables
\* that contain the same rows dated on or before D (and both have a latest
\* date >= D) produce the same SignalResult; rows dated after D influence
\* neither the metrics nor the selected snapshot
C27_NoLookAhead ==
    DateRequested =>
        \A t \in LaterTables(Requested) \cup LaterTablesBlank(Requested) :
            signal_decision(t, SettingsUsed, Requested).result = result

\* C27 as amended: for a requested date D, two feature tables in which
\* every row has a close price, that contain the same rows dated on or
\* before D in the same file order and both have a latest date >= D,
\* produce the same SignalResult, or both none when no row is dated on or
\* before D; rows dated after D that have a close influence neither the
\* metrics nor the selected snapshot
C27_NoLookAheadWithCloses ==
    (DateRequested /\ TableValid) =>
        \A t \in LaterTables(Requested) :
            signal_decision(t, SettingsUsed, Requested).result = result

\* a decision for the day before the latest row of a long table: the table
\* has a row after the requested date, and so have the tables it is
\* compared with
C27_Witness ==
    /\ DateRequested /\ TableValid /\ Returned
    /\ Requested < max_date(csv_file)
    /\ Len(RowsOnOrBefore(Requested)) >= VOL_WINDOW + 1
    /\ result[1].date <= Requested
    /\ \A t \in LaterTables(Requested) :
          signal_decision(t, SettingsUsed, Requested).result = result

\* C28: flags, weights and the action note agree: in every SignalResult
\* long_weight > 0 implies take_long is true and short_weight > 0 implies
\* take_short is true, and the final notes line says 'Taking LONG' exactly
\* when long_weight > 0, 'Taking SHORT' exactly when short_weight > 0, and
\* 'Staying in cash' exactly when both weights are 0
C28_FlagsWeightsNoteAgree ==
    Returned =>
        LET r == result[1]
            line == r.notes[4].text
        IN  /\ r.long_weight > 0 => r.take_long
            /\ r.short_weight > 0 => r.take_short
            /\ (line = "Taking LONG") <=> (r.long_weight > 0)
            /\ (line = "Taking SHORT") <=> (r.short_weight > 0)
            /\ (line = "Staying in cash") <=> (r.long_weight = 0 /\ r.short_weight = 0)

(***************************************************************************)
(* Properties of the helpers (checked under SpecFn).                       *)
(***************************************************************************)
Done(fn) == pc = "done" /\ args.fn = fn

\* the positions of _apply_gates at which take_long is already assigned
GateSteps == {"L278", "L280", "L281", "L283", "L285", "L287"}

\* C4: the take_long flag that _apply_gates returns is true exactly when
\* score_up >= the long entry threshold of the regime, the regime is not
\* HIGH_VOL or score_up >= 0.70, score_up >= the exit threshold, and the
\* cooldown is not active; and no step of the function sets the flag back to
\* true once an earlier step has cleared it.
C4_TakeLong ==
    /\ [](Done("_apply_gates") =>
            (ret.take_long <=>
                /\ args.score_up >= args.thresholds.long
                /\ (args.regime # "HIGH_VOL" \/ args.score_up >= 7000)
                /\ args.score_up >= args.exit_threshold
                /\ ~args.cooldown_active))
    /\ [][(pc \in GateSteps /\ ~ret.take_long) => ~ret'.take_long]_vars

\* a score that passes the entry and the exit threshold but not the HIGH_VOL
\* floor: the flag was set, then cleared, and is false at the end
C4_Witness ==
    /\ Done("_apply_gates")
    /\ args.regime = "HIGH_VOL"
    /\ args.score_up >= args.thresholds.long
    /\ args.score_up >= args.exit_threshold
    /\ args.score_up < 7000
    /\ ~args.cooldown_active
    /\ ~ret.take_long

\* C5: the take_short flag that _apply_gates returns is true exactly when
\* score_dn >= the short entry threshold of the regime; the regime is not
\* HIGH_VOL, or the long-term-down flag is set, or score_dn >= 0.80;
\* score_dn >= the exit threshold; and the cooldown is not active.
C5_TakeShort ==
    Done("_apply_gates") =>
        (ret.take_short <=>
            /\ args.score_dn >= args.thresholds.short
            /\ \/ args.regime # "HIGH_VOL"
               \/ args.long_term_down = 1
               \/ args.score_dn >= 8000
            /\ args.score_dn >= args.exit_threshold
            /\ ~args.cooldown_active)

\* in HIGH_VOL a short below the 0.80 floor is taken because the
\* long-term-down flag is set
C5_Witness ==
    /\ Done("_apply_gates")
    /\ args.regime = "HIGH_VOL"
    /\ args.long_term_down = 1
    /\ args.score_dn < 8000
    /\ ret.take_short

\* C8: position sizing.  With assetVol = 3 * vol_today: if assetVol <= 0
\* both weights are 0; otherwise weight = min(target_vol / assetVol, 1.0),
\* times 0.5 when the regime is HIGH_VOL, the long weight is weight if
\* take_long else 0 and the short weight is weight if take_short else 0.
C8_PositionSizing ==
    Done("_size_positions") =>
        LET assetVol == 3 * args.vol_today
            capped == Min2((args.target_vol * SCALE) \div assetVol, ONE)
            weight == IF args.regime = "HIGH_VOL" THEN capped \div 2 ELSE capped
        IN  IF assetVol <= 0 THEN ret[1] = 0 /\ ret[2] = 0
            ELSE /\ ret[1] = (IF args.take_long THEN weight ELSE 0)
                 /\ ret[2] = (IF args.take_short THEN weight ELSE 0)

\* a long position sized in HIGH_VOL: half of 0.12 / (3 * 0.1571)
C8_Witness ==
    /\ Done("_size_positions")
    /\ args.regime = "HIGH_VOL" /\ args.take_long /\ ~args.take_short
    /\ args.vol_today = 1571 /\ args.target_vol = 1200
    /\ ret[1] = 1273 /\ ret[2] = 0

\* C9: conflict resolution.  When both sized weights are positive the side
\* with the larger margin keeps its weight unchanged and the other side is
\* set to 0; with equal margins the long side is kept; when at most one
\* weight is positive both weights are returned unchanged.
C9_ConflictResolution ==
    Done("_resolve_conflict") =>
        LET both == args.long_weight > 0 /\ args.short_weight > 0
        IN  /\ (both /\ args.margin_long > args.margin_short)
                   => ret = <<args.long_weight, 0>>
            /\ (both /\ args.margin_short > args.margin_long)
                   => ret = <<0, args.short_weight>>
            /\ (both /\ args.margin_long = args.margin_short)
                   => ret = <<args.long_weight, 0>>
            /\ ~both => ret = <<args.long_weight, args.short_weight>>

\* both weights positive with equal margins: the long side is kept
C9_Witness ==
    /\ Done("_resolve_conflict")
    /\ args.long_weight > 0 /\ args.short_weight > 0
    /\ args.margin_long = args.margin_short
    /\ ret[1] = args.long_weight /\ ret[2] = 0

\* C10: cooldown_active(dates, k, d) returns (inactive, 0) when there is no
\* breach index; for a breach at index k among n dated points it returns
\* daysSince = n - (k + 1) and is active exactly when n - (k + 1) < d.
C10_CooldownActive ==
    Done("cooldown_active") =>
        /\ args.last_stop_idx = None => ret = <<FALSE, 0>>
        /\ (args.last_stop_idx # None /\ args.last_stop_idx < args.ndates) =>
               /\ ret[2] = args.ndates - (args.last_stop_idx + 1)
               /\ ret[1] <=> (args.ndates - (args.last_stop_idx + 1) < args.cooldown_days)

\* the example: n = 10, k = 5, d = 3 gives 4 days since the stop, inactive
C10_Witness ==
    /\ Done("cooldown_active")
    /\ args.ndates = 10 /\ args.last_stop_idx = 5 /\ args.cooldown_days = 3
    /\ ret = <<FALSE, 4>>

\* C11: last_stop_index(drawdowns, stopLevel) returns the largest index i
\* with drawdowns[i] <= -abs(stopLevel), returns none exactly when no index
\* satisfies that, and the sign of stopLevel does not change the result.
C11_LastStopIndex ==
    Done("last_stop_index") =>
        LET dd == args.drawdown_values
            magnitude == IF args.stop_level < 0 THEN 0 - args.stop_level
                         ELSE args.stop_level
            Breach(i) == dd[i + 1] <= 0 - magnitude
        IN  /\ (ret = None) <=> ~(\E i \in 0..(Len(dd) - 1) : Breach(i))
            /\ ret # None =>
                   /\ ret \in 0..(Len(dd) - 1)
                   /\ Breach(ret)
                   /\ \A j \in (ret + 1)..(Len(dd) - 1) : ~Breach(j)

\* two breaches and a recovery after them, with a negative stop level: the
\* later breach is the one returned
C11_Witness ==
    /\ Done("last_stop_index")
    /\ args.drawdown_values = <<-1500, -2000, -1000>>
    /\ args.stop_level = -1500
    /\ ret = 1

\* C12: for every window w >= 1 and every series, moving_average returns a
\* list of the same length and dates as the input; the entries at indices
\* below w - 1 are null and each entry at an index i >= w - 1 is the
\* arithmetic mean of the closes i - w + 1 .. i.
C12_MovingAverage ==
    (Done("moving_average") /\ args.window >= 1) =>
        LET w == args.window
            n == Len(args.prices)
        IN  /\ ret.error = ""
            /\ Len(ret.values) = n
            /\ \A i \in 0..(n - 1) :
                   /\ ret.values[i + 1].date = 10 * (i + 1)
                   /\ i < w - 1 => ret.values[i + 1].avg = Blank
                   /\ i >= w - 1 =>
                          ret.values[i + 1].avg
                              = (SCALE * RangeSum(args.prices, i - w + 2, i + 1)) \div w

\* the example: window 3 over 1, 2, 3, 4 gives null, null, 2, 3
C12_Witness ==
    /\ Done("moving_average")
    /\ args.prices = <<1, 2, 3, 4>> /\ args.window = 3
    /\ [i \in 1..4 |-> ret.values[i].avg] = <<Blank, Blank, 2 * SCALE, 3 * SCALE>>

\* C13: for every price series the drawdown series has the length of the
\* input, every element is <= 0, the element is 0 wherever the value equals
\* the running maximum so far, and on a monotonically increasing series
\* every element is 0.
C13_Drawdowns ==
    Done("drawdowns") =>
        LET p == args.prices
            n == Len(p)
        IN  /\ Len(ret) = n
            /\ \A i \in 1..n :
                   /\ ret[i] <= 0
                   /\ (\A j \in 1..i : p[j] <= p[i]) => ret[i] = 0
            /\ (\A i \in 1..(n - 1) : p[i] <= p[i + 1])
                   => \A i \in 1..n : ret[i] = 0

\* a fall to half the peak, a new high, and a fall to half of that
C13_Witness ==
    /\ Done("drawdowns")
    /\ args.prices = <<2, 1, 4, 2>>
    /\ ret = <<0, 0 - (SCALE \div 2), 0, 0 - (SCALE \div 2)>>

\* C19: merge_rows(existing, new) returns exactly one row per distinct date
\* appearing in either input, in ascending date order; for a date present
\* in both inputs the returned row is the one from new, and for a date
\* present in only one input it is that input's row.  (A row without a
\* date has no date to appear under.)
C19_OneRowPerDate ==
    Done("merge_rows") =>
        LET existing == args.existing_rows
            new == args.new_rows
            dates == (dates_of(existing) \cup dates_of(new)) \ {Blank}
        IN  /\ \A d \in dates : Cardinality({i \in 1..Len(ret) : ret[i].Date = d}) = 1
            /\ \A i \in 1..Len(ret) : ret[i].Date \in dates
            /\ \A i, j \in 1..Len(ret) : i < j => ret[i].Date < ret[j].Date
            /\ \A i \in 1..Len(ret) :
                   IF ret[i].Date \in dates_of(new)
                   THEN \E k \in 1..Len(new) : new[k] = ret[i]
                   ELSE \E k \in 1..Len(existing) : existing[k] = ret[i]

\* the snapshot has the features 0.6, 0.9, 0.7 and 0.2 with mirrored
\* complements, the settings are the defaults, the realized volatility is
\* 0.10 and the cooldown is not active
C21_Scenario ==
    /\ Done("decide")
    /\ args.latest.base = ProfileBull.base
    /\ args.latest.complement = ProfileBull.complement
    /\ args.settings = DefaultSettingsInit
    /\ args.vol_today = 1000
    /\ ~args.cd[1]

\* C21: end-to-end scenario: for a snapshot with
\* logistic_ma_spread_50_120 = 0.6, logistic_ma_spread_50_280 = 0.9,
\* logistic_return_scaled_21 = 0.7, momentum_positive_bonus = 0.2, default
\* settings, realized volatility 0.10 (LOW_VOL) and no cooldown, the engine
\* yields score_up = 0.771, take_long = true, long_weight = 0.40,
\* short_weight = 0.0 and cash_weight = 0.60
C21_EndToEnd ==
    C21_Scenario =>
        /\ ret.regime = "LOW_VOL"
        /\ ret.score_up = 7710
        /\ ret.take_long
        /\ ret.long_weight = 4000
        /\ ret.short_weight = 0
        /\ ret.cash_weight = 6000

\* the scenario has been decided and the action line takes the long side
C21_Witness ==
    /\ C21_Scenario
    /\ ret.notes[4].text = "Taking LONG"
    /\ ret.notes[4].weight = 4000

\* the regime the claim names for a call of decide
ExpectedRegime ==
    IF args.vol_today > args.settings.vol_threshold THEN "HIGH_VOL" ELSE "LOW_VOL"

\* C24: regime classification: the result's regime is LOW_VOL if and only
\* if realized volatility <= settings.vol_threshold (equality counts as
\* LOW_VOL), otherwise HIGH_VOL, and the entry thresholds used for gating
\* and for the conflict margins are the pair configured for that regime
C24_RegimeSelectsThresholds ==
    Done("decide") =>
        LET pair == args.settings.entry_thresholds[ExpectedRegime]
            features == prepare_features(args.latest)
            gate == apply_gates(ret.score_up, ret.score_dn, ExpectedRegime, features.long_term_down, args.cd[1], pair, args.settings.exit_threshold)
            sized == size_positions(args.vol_today, ExpectedRegime, gate.take_long, gate.take_short, args.settings.target_vol)
            resolved == resolve_conflict(sized[1], sized[2], ret.score_up - pair.long, ret.score_dn - pair.short)
        IN  /\ ret.regime = ExpectedRegime
            /\ (ret.regime = "LOW_VOL") <=> (args.vol_today <= args.settings.vol_threshold)
            /\ ret.take_long = gate.take_long
            /\ ret.take_short = gate.take_short
            /\ ret.take_long => ret.score_up >= pair.long
            /\ ret.take_short => ret.score_dn >= pair.short
            /\ ret.long_weight = resolved[1]
            /\ ret.short_weight = resolved[2]

\* a volatility equal to the threshold: the regime is LOW_VOL and the long
\* side is taken with a score below the HIGH_VOL entry threshold
C24_Witness ==
    /\ Done("decide")
    /\ args.vol_today = args.settings.vol_threshold
    /\ ret.regime = "LOW_VOL"
    /\ ret.take_long /\ ret.long_weight > 0
    /\ ret.score_up < args.settings.entry_thresholds["HIGH_VOL"].long

\* both sides sized in HIGH_VOL: the margins over the HIGH_VOL pair decide
C24_WitnessConflict ==
    /\ Done("decide")
    /\ ret.regime = "HIGH_VOL"
    /\ ret.take_long /\ ret.take_short
    /\ ret.short_weight > 0

(***************************************************************************)
(* The batch actions: actions/build_indicators.py over data/raw and        *)
(* data/processed.  One step of the loop is one symbol.                    *)
(***************************************************************************)
MaxSymbols == 3
LongRaw == 285
ShortRaw == 45

Symbols == {"QQQ", "TQQQ", "SQQQ"}

\* a token of --windows that int() rejects, such as "abc"
NotInteger == -777777

NoRawFile == [exists |-> FALSE, rows |-> <<>>]

EmptyRawFile == [exists |-> TRUE, rows |-> <<>>]

\* n days of slowly rising closes, newest first, as the provider's export
RisingRawFile(symbol, n) == [exists |-> TRUE, rows |-> [j \in 1..n |-> RawRow(symbol, n + 1 - j, TRUE, 100 + ((n + 1 - j) \div 30) + ((n + 1 - j) % 3))]]

\* n days of a suspended symbol: every close is 0
ZeroRawFile(symbol, n) == [exists |-> TRUE, rows |-> [j \in 1..n |-> RawRow(symbol, n + 1 - j, FALSE, 0)]]

\* three rows, the second with a date in no known format
BadDateRawFile(symbol) == [exists |-> TRUE, rows |-> <<RawRow(symbol, 3, TRUE, 101), RawRow(symbol, Blank, TRUE, 100), RawRow(symbol, 1, TRUE, 99)>>]

\* three rows, the second with a close that is not a number
BadCloseRawFile(symbol) == [exists |-> TRUE, rows |-> <<RawRow(symbol, 3, TRUE, 101), RawRow(symbol, 2, TRUE, Blank), RawRow(symbol, 1, TRUE, 99)>>]

\* data/raw with a long history for QQQ
LongDisk == [s \in Symbols |-> CASE s = "QQQ" -> RisingRawFile(s, LongRaw) [] s = "TQQQ" -> NoRawFile [] OTHER -> EmptyRawFile]

\* data/raw with short histories and files that do not parse
ShortDisks ==
    { [s \in Symbols |-> CASE s = "QQQ" -> ZeroRawFile(s, ShortRaw + VELOCITY_LOOKBACK)
                           [] s = "TQQQ" -> BadDateRawFile(s)
                           [] OTHER -> EmptyRawFile],
      [s \in Symbols |-> CASE s = "QQQ" -> BadCloseRawFile(s)
                           [] s = "TQQQ" -> NoRawFile
                           [] OTHER -> RisingRawFile(s, ShortRaw)] }

NoFeatureFile == [exists |-> FALSE, rows |-> <<>>]

\* a feature file left by an earlier build: one row, no feature computed
StaleFeatureFile == [exists |-> TRUE, rows |-> <<build_feature_row(<<[date |-> 1, close |-> 7]>>, 0, [w \in REQUIRED_WINDOWS |-> <<[date |-> 1, avg |-> Blank]>>])>>]

ProcessedDisks ==
    { [s \in Symbols |-> NoFeatureFile],
      [s \in Symbols |-> IF s = "SQQQ" THEN NoFeatureFile ELSE StaleFeatureFile] }

IsInjective(seq) == \A i, j \in 1..Len(seq) : seq[i] = seq[j] => i = j

\* --tickers split at the commas: lists of distinct symbols, and lists with
\* an empty token or a symbol given twice
TickerArgs ==
    {t \in SeqsUpTo(Symbols, MaxSymbols) : IsInjective(t)}
    \cup {<<"">>, <<"QQQ", "", "TQQQ">>, <<"TQQQ", "QQQ", "TQQQ">>}

\* --windows split at the commas
WindowArgs ==
    { <<50, 120, 280>>, <<50, 120>>, <<120>>, <<0, 50, 120, 280>>,
      <<280, Blank, 120, 50, 10>>, <<50, NotInteger, 280>> }

\* the ticker lists run against the long history
LongTickerArgs == {<<"QQQ">>, <<"TQQQ", "QQQ", "SQQQ">>}

\* the runs of the build action: its arguments and the two directories
BuildRuns ==
    [tickers : TickerArgs, windows : WindowArgs, raw : ShortDisks, processed : ProcessedDisks]
    \cup [tickers : LongTickerArgs, windows : WindowArgs, raw : {LongDisk}, processed : ProcessedDisks]

EngineIdle ==
    /\ csv_file = <<>>
    /\ settings_file = NoFile
    /\ DEFAULT_SETTINGS = DefaultSettingsInit
    /\ report_file = <<>>
    /\ result = <<>>
    /\ error = ""
    /\ report_path = FALSE
    /\ call = <<>>

\* [sym.strip().upper() for sym in tickers.split(",") if sym.strip()]
parse_symbols(tickers) == SelectSeq(tickers, LAMBDA sym : sym # "")

\* the check of the symbol list left out
no_symbols_unchecked(symbols) == FALSE

\* if not symbols
no_symbols(symbols) == symbols = <<>>

\* [int(token.strip()) for token in windows.split(",") if token.strip()]
parse_windows(tokens) ==
    LET kept == SelectSeq(tokens, LAMBDA token : token # Blank)
    IN  IF \E i \in 1..Len(kept) : kept[i] = NotInteger
        THEN [error |-> "ValueError: invalid literal for int()", windows |-> <<>>]
        ELSE [error |-> "", windows |-> kept]

ValueErrors ==
    { "ValueError: Unrecognized date format",
      "ValueError: could not convert string to float",
      "ValueError: Missing required windows",
      "ValueError: window must be a positive integer" }

\* except ValueError: a handler for the builder's own errors only
except_ValueError(exc) == exc \in ValueErrors

\* except Exception: every error the builder or the fetcher raises is one
except_Exception(exc) == TRUE

Line(symbol, stream, text, missing) == [symbol |-> symbol, stream |-> stream, text |-> text, missing |-> missing]

\* main() up to the loop
BuildMain ==
    /\ pc = "main" /\ args.action = "build_indicators"
    /\ LET symbols == parse_symbols(args.tickers)
           parsed == parse_windows(args.windows)
       IN  IF no_symbols(symbols)
           THEN /\ log' = Append(log, Line("", "stderr", "No valid tickers provided", {}))
                /\ exit_status' = 1
                /\ pc' = "exit"
                /\ UNCHANGED <<ret, cursor>>
           ELSE IF parsed.error # ""
           THEN /\ log' = Append(log, Line("", "stderr", "Traceback", {}))
                /\ exit_status' = 1
                /\ pc' = "exit"
                /\ UNCHANGED <<ret, cursor>>
           ELSE /\ ret' = [symbols |-> symbols, windows |-> parsed.windows]
                /\ cursor' = 1
                /\ pc' = "loop"
                /\ UNCHANGED <<log, exit_status>>
    /\ UNCHANGED <<Engine, args, raw_dir, processed_dir, massive>>

\* one pass of the loop body: the symbol at the cursor
BuildSymbol ==
    /\ pc = "loop" /\ args.action = "build_indicators"
    /\ cursor <= Len(ret.symbols)
    /\ LET symbol == ret.symbols[cursor]
       IN  \E out \in {build_moving_average_csv(raw_dir[symbol], ret.windows)} :
               IF out.error = ""
               THEN /\ processed_dir' = [processed_dir EXCEPT ![symbol] = [exists |-> TRUE, rows |-> out.rows]]
                    /\ log' = Append(log, Line(symbol, "stdout", "wrote", {}))
                    /\ cursor' = cursor + 1
                    /\ UNCHANGED <<pc, exit_status>>
               ELSE IF except_Exception(out.error)
               THEN /\ log' = Append(log, Line(symbol, "stderr", out.error, out.missing))
                    /\ cursor' = cursor + 1
                    /\ UNCHANGED <<pc, exit_status, processed_dir>>
               ELSE /\ log' = Append(log, Line("", "stderr", "Traceback", {}))
                    /\ exit_status' = 1
                    /\ pc' = "exit"
                    /\ UNCHANGED <<cursor, processed_dir>>
    /\ UNCHANGED <<Engine, args, ret, raw_dir, massive>>

\* return 0 after the loop
BuildReturn ==
    /\ pc = "loop" /\ args.action = "build_indicators"
    /\ cursor > Len(ret.symbols)
    /\ exit_status' = 0
    /\ pc' = "exit"
    /\ UNCHANGED <<Engine, args, ret, raw_dir, processed_dir, massive, log, cursor>>

\* the answers of the service
Answers ==
    { [kind |-> "transport", results |-> <<>>],
      [kind |-> "http", results |-> <<>>],
      [kind |-> "ok", results |-> <<>>],
      [kind |-> "ok", results |-> <<[t |-> 5, c |-> 150], [t |-> 6, c |-> 160]>>],
      [kind |-> "ok", results |-> <<[t |-> None, c |-> 170], [t |-> 7, c |-> Blank]>>] }

\* data/raw before a fetch: a canonical file, no file, and an older file
\* with its rows oldest first and one row without a date
FetchDisk == [s \in Symbols |-> CASE s = "QQQ" -> [exists |-> TRUE, rows |-> <<RawRow(s, 5, FALSE, 105), RawRow(s, 4, FALSE, 104), RawRow(s, 3, FALSE, 103)>>] [] s = "TQQQ" -> NoRawFile [] OTHER -> [exists |-> TRUE, rows |-> <<RawRow(s, 1, TRUE, 101), RawRow(s, Blank, TRUE, 102), RawRow(s, 5, TRUE, 105)>>]]

\* the runs of the fetch action: its arguments, the credentials and the
\* answer of the service for each symbol
FetchRuns == [symbols : TickerArgs, start : {None, 3, 6}, end : {None, 5}, key : {"", "k"}, answer : [Symbols -> Answers]]

\* main() up to the loop
FetchMain ==
    /\ pc = "main" /\ args.action = "fetch_history_massive"
    /\ LET symbols == parse_symbols(args.symbols)
       IN  IF no_symbols(symbols)
           THEN /\ log' = Append(log, Line("", "stderr", "No valid symbols provided", {}))
                /\ exit_status' = 1
                /\ pc' = "exit"
                /\ UNCHANGED <<ret, cursor>>
           ELSE IF massive_credentials(massive.env).error # ""
           THEN /\ log' = Append(log, Line("", "stderr", "Traceback", {}))
                /\ exit_status' = 1
                /\ pc' = "exit"
                /\ UNCHANGED <<ret, cursor>>
           ELSE /\ ret' = [symbols |-> symbols]
                /\ cursor' = 1
                /\ pc' = "loop"
                /\ UNCHANGED <<log, exit_status>>
    /\ UNCHANGED <<Engine, args, raw_dir, processed_dir, massive>>

\* one pass of the loop body: the symbol at the cursor
FetchSymbol ==
    /\ pc = "loop" /\ args.action = "fetch_history_massive"
    /\ cursor <= Len(ret.symbols)
    /\ LET symbol == ret.symbols[cursor]
           existing_rows == load_raw_rows(raw_dir[symbol])
           existing_dates == extract_dates(existing_rows)
           window == resolve_window(existing_dates, args.start, args.end)
           fetching == Append(log, Line(symbol, "stdout", "fetching", {}))
       IN  IF window.start = None
           THEN /\ log' = Append(log, Line(symbol, "stderr", "history missing", {}))
                /\ cursor' = cursor + 1
                /\ UNCHANGED <<pc, exit_status, raw_dir>>
           ELSE IF has_coverage(existing_dates, window.start, window.end)
           THEN /\ log' = Append(log, Line(symbol, "stdout", "already has", {}))
                /\ cursor' = cursor + 1
                /\ UNCHANGED <<pc, exit_status, raw_dir>>
           ELSE \E out \in {fetch_daily_ohlcv(symbol, massive.answer[symbol])} :
                    IF out.error = ""
                    THEN /\ raw_dir' = [raw_dir EXCEPT ![symbol] = write_raw_csv(merge_rows(existing_rows, out.rows))]
                         /\ log' = Append(fetching, Line(symbol, "stdout", "wrote", {}))
                         /\ cursor' = cursor + 1
                         /\ UNCHANGED <<pc, exit_status>>
                    ELSE IF except_Exception(out.error)
                    THEN /\ log' = Append(fetching, Line(symbol, "stderr", out.error, {}))
                         /\ cursor' = cursor + 1
                         /\ UNCHANGED <<pc, exit_status, raw_dir>>
                    ELSE /\ log' = Append(fetching, Line("", "stderr", "Traceback", {}))
                         /\ exit_status' = 1
                         /\ pc' = "exit"
                         /\ UNCHANGED <<cursor, raw_dir>>
    /\ UNCHANGED <<Engine, args, ret, processed_dir, massive>>

\* return 0 after the loop
FetchReturn ==
    /\ pc = "loop" /\ args.action = "fetch_history_massive"
    /\ cursor > Len(ret.symbols)
    /\ exit_status' = 0
    /\ pc' = "exit"
    /\ UNCHANGED <<Engine, args, ret, raw_dir, processed_dir, massive, log, cursor>>

InitBuild ==
    \E run \in BuildRuns :
        /\ args = [action |-> "build_indicators", tickers |-> run.tickers, windows |-> run.windows]
        /\ raw_dir = run.raw
        /\ processed_dir = run.processed
        /\ massive = <<>>

InitFetch ==
    \E run \in FetchRuns :
        /\ args = [action |-> "fetch_history_massive", symbols |-> run.symbols, start |-> run.start, end |-> run.end]
        /\ raw_dir = FetchDisk
        /\ processed_dir = [s \in Symbols |-> NoFeatureFile]
        /\ massive = [env |-> [MASSIVE_API_KEY |-> run.key], answer |-> run.answer]

InitBatch ==
    /\ EngineIdle
    /\ pc = "main"
    /\ (InitBuild \/ InitFetch)
    /\ ret = <<>>
    /\ log = <<>>
    /\ exit_status = None
    /\ cursor = 0

NextBatch ==
    \/ BuildMain
    \/ BuildSymbol
    \/ BuildReturn
    \/ FetchMain
    \/ FetchSymbol
    \/ FetchReturn

SpecBatch == InitBatch /\ [][NextBatch]_vars

(***************************************************************************)
(* Properties of the batch actions (checked under SpecBatch).              *)
(***************************************************************************)
\* the symbols whose feature file this run has written
Written == {log[i].symbol : i \in {k \in 1..Len(log) : log[k].text = "wrote"}}

\* C14: in every feature row written by the feature builder, each of the
\* four complement columns is blank if and only if its base feature is
\* blank, and otherwise base value + complement equals 1.0
C14_ComplementColumns ==
    \A s \in DOMAIN processed_dir :
        \A i \in 1..Len(processed_dir[s].rows) :
            \A f \in FeatureNames :
                LET row == processed_dir[s].rows[i]
                IN  /\ (row.complement[f] = Blank) <=> (row.base[f] = Blank)
                    /\ row.base[f] # Blank => row.base[f] + row.complement[f] = ONE

\* a file written in this run holds a row with all four features and a
\* row with none
C14_Witness ==
    \E s \in Written :
        LET rows == processed_dir[s].rows
        IN  /\ \E i \in 1..Len(rows) : \A f \in FeatureNames : rows[i].base[f] \notin {Blank, 0, ONE}
            /\ \E i \in 1..Len(rows) : \A f \in FeatureNames : rows[i].base[f] = Blank

\* those of 50, 120 and 280 that the build action was not asked for
Lacking == {50, 120, 280} \ {ret.windows[i] : i \in 1..Len(ret.windows)}

\* the build action is about to build the symbol at the cursor, and the
\* windows asked for lack a required one
BuildingWithoutRequired ==
    /\ pc = "loop" /\ args.action = "build_indicators"
    /\ cursor <= Len(ret.symbols)
    /\ Lacking # {}

\* the raw file exists, has rows, and every date and close parses
Readable(raw_file) ==
    /\ raw_file.exists
    /\ raw_file.rows # <<>>
    /\ \A i \in 1..Len(raw_file.rows) : raw_file.rows[i].Date # Blank /\ raw_file.rows[i].Close.amount # Blank

\* the step reports an error naming the missing windows for the symbol
NamesMissingWindows ==
    log' = Append(log, Line(ret.symbols[cursor], "stderr", "ValueError: Missing required windows", Lacking))

\* the step reports some error for the symbol
ReportsError ==
    /\ Len(log') = Len(log) + 1
    /\ log'[Len(log')].symbol = ret.symbols[cursor]
    /\ log'[Len(log')].stream = "stderr"
    /\ log'[Len(log')].text # "wrote"

\* C15 (as stated): build_moving_average_csv called with a window set
\* that does not contain all of 50, 120 and 280 fails with an error naming
\* the missing windows and writes no feature file
C15_AlwaysNamesMissingWindows ==
    [][BuildingWithoutRequired => (NamesMissingWindows /\ processed_dir' = processed_dir)]_vars

\* C15 (amended): build_moving_average_csv called with a window set that
\* does not contain all of 50, 120 and 280 fails and writes no feature
\* file; the error names the missing windows when the raw file exists,
\* has rows and every row parses, and is the error of reading or parsing
\* the raw file otherwise
C15_MissingWindows ==
    [][BuildingWithoutRequired =>
           /\ processed_dir' = processed_dir
           /\ ReportsError
           /\ IF Readable(raw_dir[ret.symbols[cursor]])
              THEN NamesMissingWindows
              ELSE log'[Len(log')].text \in {"FileNotFoundError: CSV not found", "FileNotFoundError: No data found", "ValueError: Unrecognized date format", "ValueError: could not convert string to float"}]_vars

\* a readable raw file was built without windows 50 and 280: the error
\* names both and the feature file of an earlier build is still there
C15_Witness ==
    \E i \in 1..Len(log) :
        /\ log[i].text = "ValueError: Missing required windows"
        /\ log[i].missing = {50, 280}
        /\ Readable(raw_dir[log[i].symbol])
        /\ processed_dir[log[i].symbol] = StaleFeatureFile

\* the build of this raw file with these windows succeeds
Buildable(raw_file, windows) ==
    /\ Readable(raw_file)
    /\ {50, 120, 280} \subseteq {windows[i] : i \in 1..Len(windows)}
    /\ \A i \in 1..Len(windows) : windows[i] >= 1

\* the build action has entered its loop
BuildLooping == args \in [action : {"build_indicators"}, tickers : TickerArgs, windows : WindowArgs] /\ pc \in {"loop", "exit"} /\ ret # <<>>

\* C16: batch feature building processes the requested symbols one at a
\* time in list order, and every symbol in the list is attempted exactly
\* once: an error raised while building one symbol is reported for that
\* symbol and never prevents the later symbols from being built.  As a
\* property of every state of a run: the lines printed so far are one per
\* symbol before the cursor, in list order, each the outcome of building
\* that symbol alone, and the action has exited only with a line for every
\* symbol of the list
C16_SequentialBuild ==
    BuildLooping =>
        /\ Len(log) = (IF pc = "exit" THEN Len(ret.symbols) ELSE cursor - 1)
        /\ \A i \in 1..Len(log) :
               LET symbol == ret.symbols[i]
               IN  /\ log[i].symbol = symbol
                   /\ IF Buildable(raw_dir[symbol], ret.windows)
                      THEN log[i].text = "wrote" /\ processed_dir[symbol].exists
                      ELSE log[i].stream = "stderr" /\ log[i].text # "wrote"

\* a finished run in which the first symbol failed and the last was built
C16_Witness ==
    /\ BuildLooping /\ pc = "exit"
    /\ Len(log) >= 3
    /\ log[1].stream = "stderr"
    /\ log[Len(log)].text = "wrote"

\* the run ends before its loop starts: no symbol is left after the empty
\* tokens are dropped, a --windows token is not an integer (build), or the
\* API key is missing (fetch)
EndsBeforeLoop ==
    IF args.action = "build_indicators"
    THEN parse_symbols(args.tickers) = <<>> \/ \E i \in 1..Len(args.windows) : args.windows[i] = NotInteger
    ELSE parse_symbols(args.symbols) = <<>> \/ massive.env.MASSIVE_API_KEY = ""

\* C17 (as stated): batch exit status (feature build and fetch): the
\* process exits non-zero when no useful work completed (no symbol was
\* processed successfully), and exits zero when at least one symbol
\* succeeded even if others failed
C17_NonZeroWithoutSuccess ==
    pc = "exit" => (exit_status # 0 <=> Written = {})

\* C17 (amended): the process exits non-zero exactly when the run ends
\* before its loop starts (empty symbol list, a --windows token that is not
\* an integer, a missing API key); once the loop has started it exits
\* zero, whether symbols succeeded or every one of them failed
C17_ExitStatus ==
    pc = "exit" =>
        /\ exit_status \in {0, 1}
        /\ exit_status # 0 <=> EndsBeforeLoop

\* a fetch in which every symbol failed has exited with status 0
C17_Witness ==
    /\ pc = "exit" /\ args.action = "fetch_history_massive"
    /\ exit_status = 0
    /\ Written = {}
    /\ Cardinality({i \in 1..Len(log) : log[i].stream = "stderr" /\ log[i].symbol # ""}) >= 2

\* the fetch action is about to handle the symbol at the cursor
Fetching ==
    /\ pc = "loop" /\ args.action = "fetch_history_massive"
    /\ cursor <= Len(ret.symbols)

\* the fetch of this symbol raises: transport failure, HTTP error, or an
\* answer without rows
FetchRaises(symbol) ==
    \/ massive.answer[symbol].kind \in {"transport", "http"}
    \/ massive.answer[symbol].results = <<>>

\* C18: in the fetch batch, a symbol's raw CSV on disk is overwritten only
\* after its fetch returned successfully: if the fetch for a symbol raises
\* (transport failure, HTTP error, or zero rows returned), that symbol's
\* file is left exactly as it was, and files of other symbols are
\* unaffected
C18_OverwriteAfterFetch ==
    [][Fetching =>
           LET symbol == ret.symbols[cursor]
           IN  /\ \A other \in Symbols \ {symbol} : raw_dir'[other] = raw_dir[other]
               /\ FetchRaises(symbol) => raw_dir'[symbol] = raw_dir[symbol]
               /\ raw_dir'[symbol] # raw_dir[symbol] => log'[Len(log')] = Line(symbol, "stdout", "wrote", {})]_vars

\* the fetch of one symbol raised and its file is as it was before the
\* run, and the file of another symbol has been rewritten
C18_Witness ==
    /\ pc = "exit" /\ args.action = "fetch_history_massive"
    /\ \E i, j \in 1..Len(log) :
           /\ log[i].text \in {"RuntimeError: Massive returned HTTP", "RuntimeError: Massive request failed", "RuntimeError: No OHLCV data returned"}
           /\ raw_dir[log[i].symbol] = FetchDisk[log[i].symbol]
           /\ raw_dir[log[i].symbol].exists
           /\ log[j].text = "wrote"
           /\ raw_dir[log[j].symbol] # FetchDisk[log[j].symbol]

(***************************************************************************)
(* The risk metrics over a growing table: each step appends one dated row  *)
(* and computes lines 82-92 of run_signal_engine over the rows so far.     *)
(***************************************************************************)
\* a close above the base price: a new peak
HIGH_PRICE == 120

SeriesCloses == {LOW_PRICE, BASE_PRICE, HIGH_PRICE}

\* max_drawdown_stop as the settings give it, positive or negative
SeriesStops == {1500, -1500}

\* lines 82-92: the drawdowns, the last stop and the cooldown of the rows
\* so far (the dates are the positions of the rows)
series_metrics(closes, max_drawdown_stop, cooldown_days) ==
    LET dates == [i \in 1..Len(closes) |-> i]
        dd == drawdowns(closes)
        last_stop_idx == last_stop_index(dd, max_drawdown_stop)
        cd == cooldown_active(dates, last_stop_idx, cooldown_days)
    IN  [drawdowns |-> dd, last_stop_idx |-> last_stop_idx,
         cooldown_active |-> cd[1], days_since_stop |-> cd[2]]

InitSeries ==
    /\ EngineIdle /\ BatchIdle
    /\ pc = "series"
    /\ \E c \in SeriesCloses, stop \in SeriesStops, days \in 0..MaxGrowCooldown :
          /\ args = [closes |-> <<c>>, max_drawdown_stop |-> stop, cooldown_days |-> days]
          /\ ret = series_metrics(<<c>>, stop, days)

\* one more dated row, and the metrics of the longer series
AppendRow(c) ==
    /\ pc = "series"
    /\ Len(args.closes) < MaxGrow
    /\ args' = [args EXCEPT !.closes = Append(@, c)]
    /\ ret' = series_metrics(args'.closes, args.max_drawdown_stop, args.cooldown_days)
    /\ UNCHANGED <<Engine, Batch, pc>>

NextSeries == \E c \in SeriesCloses : AppendRow(c)

SpecSeries == InitSeries /\ [][NextSeries]_vars

(***************************************************************************)
(* Properties of the growing series (checked under SpecSeries).            *)
(***************************************************************************)
\* the positions (from 1) of the rows whose drawdown breaches the stop
Breaches ==
    {i \in 1..Len(args.closes) : ret.drawdowns[i] <= -Abs(args.max_drawdown_stop)}

\* the position of the latest breach
LastBreach == CHOOSE k \in Breaches : \A j \in Breaches : j <= k

\* with the latest breach at position k, the cooldown is active on the rows
\* k .. k + cooldown_days - 1 and on no other
CooldownWindow ==
    IF Breaches = {} THEN ~ret.cooldown_active /\ ret.days_since_stop = 0
    ELSE /\ ret.days_since_stop = Len(args.closes) - LastBreach
         /\ ret.cooldown_active <=>
               Len(args.closes) \in LastBreach..(LastBreach + args.cooldown_days - 1)

\* an appended row that breaches the stop resets days-since-stop to 0 and
\* makes the cooldown active; any other appended row adds a day to a
\* running count and never makes the cooldown active
CooldownAdvance ==
    Len(args'.closes) = Len(args.closes) + 1 =>
        IF Len(args'.closes) \in Breaches'
        THEN /\ ret'.days_since_stop = 0
             /\ args.cooldown_days >= 1 => ret'.cooldown_active
        ELSE /\ Breaches' = Breaches
             /\ Breaches # {} => ret'.days_since_stop = ret.days_since_stop + 1
             /\ ret'.cooldown_active => ret.cooldown_active

\* C26: cooldown over a growing series: as dated rows are appended one per
\* step after a stop breach at position k, with no later breach, cooldown
\* is active on the breach row and on the next cooldown_days - 1 rows and
\* inactive on every row after that; any later row whose drawdown is again
\* <= -abs(max_drawdown_stop) resets days-since-stop to 0 and makes
\* cooldown active again
C26_CooldownOverGrowingSeries ==
    /\ [](pc = "series" => CooldownWindow)
    /\ [][pc = "series" => CooldownAdvance]_vars

\* a second breach after the window of the first has run out: the cooldown
\* is active again with a count of 0
C26_Witness ==
    /\ pc = "series"
    /\ args.cooldown_days = 2
    /\ Breaches = {2, 5}
    /\ Len(args.closes) = 5
    /\ ret.cooldown_active /\ ret.days_since_stop = 0

\* the first row after the window of a breach: the cooldown is over
C26_WitnessExpired ==
    /\ pc = "series"
    /\ args.cooldown_days = 2
    /\ Breaches = {2}
    /\ Len(args.closes) = 4
    /\ ~ret.cooldown_active /\ ret.days_since_stop = 2

=============================================================================
